---- MODULE Spec2Model ----
(***************************************************************************)
(* A model of the chess rules engine (chess_game/board.py, pieces.py), the *)
(* game controller (chess_game/game.py) and the search engine              *)
(* (chess_game/ai.py).                                                     *)
(*                                                                         *)
(* Python objects are modelled by value.  A piece is a record holding its  *)
(* class (by its symbol), colour, its own row/col fields and has_moved;    *)
(* Python's None is the record NoPiece, and a None tuple is <<>>.  A       *)
(* method that mutates its receiver is an operator that returns the        *)
(* receiver's new value.                                                   *)
(***************************************************************************)
EXTENDS Integers, Sequences, FiniteSets, TLC

\* ------------------------------------------------------------------------
\* constants.py (colour tags)
\* ------------------------------------------------------------------------
WHITE == "white"

BLACK == "black"

Colors == {WHITE, BLACK}

Opponent(color) == IF color = WHITE THEN BLACK ELSE WHITE

\* ------------------------------------------------------------------------
\* pieces.py: Piece and its subclasses
\* ------------------------------------------------------------------------
NoPiece == [kind |-> "None", color |-> "None", row |-> 0, col |-> 0, has_moved |-> FALSE]

Piece(kind, color, row, col) ==
    [kind |-> kind, color |-> color, row |-> row, col |-> col, has_moved |-> FALSE]

\* Python truthiness of a grid cell: None is false, every piece object true
IsPiece(p) == p.kind # "None"

Rows == 0..7

\* ------------------------------------------------------------------------
\* board.py: Board.__init__ / _setup_pieces
\* ------------------------------------------------------------------------
BackRank == <<"R", "N", "B", "Q", "K", "B", "N", "R">>

_setup_pieces ==
    [r \in Rows |-> [c \in Rows |->
        CASE r = 0 -> Piece(BackRank[c + 1], BLACK, 0, c)
          [] r = 1 -> Piece("P", BLACK, 1, c)
          [] r = 6 -> Piece("P", WHITE, 6, c)
          [] r = 7 -> Piece(BackRank[c + 1], WHITE, 7, c)
          [] OTHER -> NoPiece]]

NewBoard ==
    [board |-> _setup_pieces,
     captured_pieces |-> [white |-> <<>>, black |-> <<>>],
     move_history |-> <<>>,
     king_positions |-> [white |-> <<7, 4>>, black |-> <<0, 4>>],
     castling_rights |-> [white |-> [kingside |-> TRUE, queenside |-> TRUE],
                          black |-> [kingside |-> TRUE, queenside |-> TRUE]],
     en_passant_target |-> <<>>,
     halfmove_clock |-> 0,
     fullmove_counter |-> 1]

is_valid_position(row, col) == 0 <= row /\ row < 8 /\ 0 <= col /\ col < 8

get_piece(b, row, col) ==
    IF 0 <= row /\ row < 8 /\ 0 <= col /\ col < 8 THEN b.board[row][col] ELSE NoPiece

\* copy.deepcopy(board): a fresh object graph with equal contents
deepcopy(b) == b

Abs(x) == IF x < 0 THEN -x ELSE x

SetCell(grid, r, c, p) == [grid EXCEPT ![r][c] = p]

\* ------------------------------------------------------------------------
\* board.py: Board._get_move_type
\* ------------------------------------------------------------------------

\* a variant that takes every two-column move of a king for the kingside
_get_move_type_OneCastle(b, piece, start_row, start_col, end_row, end_col) ==
    IF piece.kind = "P" THEN
        IF (piece.color = WHITE /\ end_row = 0) \/ (piece.color = BLACK /\ end_row = 7)
        THEN "promotion"
        ELSE IF /\ Abs(start_col - end_col) = 1
                /\ ~IsPiece(b.board[end_row][end_col])
                /\ b.en_passant_target = <<end_row, end_col>>
             THEN "en_passant"
             ELSE "regular"
    ELSE IF piece.kind = "K" THEN
        IF Abs(end_col - start_col) = 2 THEN "castling_kingside"
        ELSE "regular"
    ELSE "regular"

_get_move_type(b, piece, start_row, start_col, end_row, end_col) ==
    IF piece.kind = "P" THEN
        IF (piece.color = WHITE /\ end_row = 0) \/ (piece.color = BLACK /\ end_row = 7)
        THEN "promotion"
        ELSE IF /\ Abs(start_col - end_col) = 1
                /\ ~IsPiece(b.board[end_row][end_col])
                /\ b.en_passant_target = <<end_row, end_col>>
             THEN "en_passant"
             ELSE "regular"
    ELSE IF piece.kind = "K" THEN
        IF end_col - start_col = 2 THEN "castling_kingside"
        ELSE IF start_col - end_col = 2 THEN "castling_queenside"
        ELSE "regular"
    ELSE "regular"

\* dict.copy() of castling_rights: a new outer dict whose two values are the
\* SAME inner dict objects as the live castling_rights (a shallow copy).  The
\* record keeps references; ReadCastling dereferences them.
shallow_copy_castling == [white |-> [ref |-> WHITE], black |-> [ref |-> BLACK]]

ReadCastling(b, rec, color, side) == b.castling_rights[rec.castling[color].ref][side]

\* a variant that relocates the rook on the grid without updating the rook
CastleRook_NoFields(grid, row, from, to) ==
    SetCell(SetCell(grid, row, to, grid[row][from]), row, from, NoPiece)

\* The rook relocation of a castling move: board[row][to] = rook,
\* board[row][from] = None, and the rook object (if any) updated in place.
CastleRook(grid, row, from, to) ==
    LET rook == grid[row][from]
        moved == IF IsPiece(rook)
                 THEN [rook EXCEPT !.row = row, !.col = to, !.has_moved = TRUE]
                 ELSE rook
    IN  SetCell(SetCell(grid, row, to, moved), row, from, NoPiece)

RookMoveRights(rights, piece, start_row, start_col) ==
    IF piece.kind # "R" THEN rights
    ELSE IF start_row = 7 /\ start_col = 0 /\ piece.color = WHITE
         THEN [rights EXCEPT ![WHITE].queenside = FALSE]
    ELSE IF start_row = 7 /\ start_col = 7 /\ piece.color = WHITE
         THEN [rights EXCEPT ![WHITE].kingside = FALSE]
    ELSE IF start_row = 0 /\ start_col = 0 /\ piece.color = BLACK
         THEN [rights EXCEPT ![BLACK].queenside = FALSE]
    ELSE IF start_row = 0 /\ start_col = 7 /\ piece.color = BLACK
         THEN [rights EXCEPT ![BLACK].kingside = FALSE]
    ELSE rights

\* a variant without the captured-rook rule
RookCaptureRights_None(rights, captured_piece, end_row, end_col) == rights

RookCaptureRights(rights, captured_piece, end_row, end_col) ==
    IF ~(IsPiece(captured_piece) /\ captured_piece.kind = "R") THEN rights
    ELSE IF end_row = 0 /\ end_col = 0 THEN [rights EXCEPT ![BLACK].queenside = FALSE]
    ELSE IF end_row = 0 /\ end_col = 7 THEN [rights EXCEPT ![BLACK].kingside = FALSE]
    ELSE IF end_row = 7 /\ end_col = 0 THEN [rights EXCEPT ![WHITE].queenside = FALSE]
    ELSE IF end_row = 7 /\ end_col = 7 THEN [rights EXCEPT ![WHITE].kingside = FALSE]
    ELSE rights

\* ------------------------------------------------------------------------
\* board.py: Board.move_piece, by its parts in source order
\* ------------------------------------------------------------------------

\* a variant that takes the captured piece from the destination square in
\* every branch
CapturedPiece_Destination(b, move_type, start_row, end_row, end_col) ==
    b.board[end_row][end_col]

\* the captured piece: the destination cell, or for en passant the cell
\* beside the pawn
CapturedPiece(b, move_type, start_row, end_row, end_col) ==
    IF move_type = "en_passant" THEN b.board[start_row][end_col]
    ELSE b.board[end_row][end_col]

\* the special-move branch: en passant removes the passed pawn, castling
\* relocates the rook
SpecialMoveGrid(grid, move_type, start_row, end_col) ==
    CASE move_type = "en_passant" -> SetCell(grid, start_row, end_col, NoPiece)
      [] move_type = "castling_kingside" -> CastleRook(grid, start_row, 7, 5)
      [] move_type = "castling_queenside" -> CastleRook(grid, start_row, 0, 3)
      [] OTHER -> grid


\* a variant without the promotion branch
PlacePiece_NoPromotion(grid, piece, move_type, start_row, start_col, end_row, end_col) ==
    SetCell(SetCell(grid, end_row, end_col,
                    [piece EXCEPT !.row = end_row, !.col = end_col, !.has_moved = TRUE]),
            start_row, start_col, NoPiece)

\* regular move execution, the piece's own square, and pawn promotion
PlacePiece(grid, piece, move_type, start_row, start_col, end_row, end_col) ==
    LET moved == [piece EXCEPT !.row = end_row, !.col = end_col, !.has_moved = TRUE]
        placed == IF move_type = "promotion"
                  THEN Piece("Q", piece.color, end_row, end_col)
                  ELSE moved
    IN  SetCell(SetCell(grid, end_row, end_col, placed), start_row, start_col, NoPiece)

\* a variant that never refreshes the king cache
KingPositionsAfter_NoUpdate(king_positions, piece, end_row, end_col) == king_positions

\* the king cache
KingPositionsAfter(king_positions, piece, end_row, end_col) ==
    IF piece.kind = "K"
    THEN [king_positions EXCEPT ![piece.color] = <<end_row, end_col>>]
    ELSE king_positions


\* a variant that clears only the kingside right when the king moves
KingMoveRights_OneSide(rights, piece) ==
    IF piece.kind = "K"
    THEN [rights EXCEPT ![piece.color].kingside = FALSE]
    ELSE rights

\* castling rights when the king moved
KingMoveRights(rights, piece) ==
    IF piece.kind = "K"
    THEN [rights EXCEPT ![piece.color] = [kingside |-> FALSE, queenside |-> FALSE]]
    ELSE rights


\* a variant whose en passant branch appends and whose final test appends
\* again
CapturedAfter_Twice(captured_pieces, piece, move_type, captured_piece) ==
    IF move_type = "en_passant"
    THEN [captured_pieces EXCEPT ![piece.color] = Append(Append(@, captured_piece),
                                                         captured_piece)]
    ELSE IF IsPiece(captured_piece)
    THEN [captured_pieces EXCEPT ![piece.color] = Append(@, captured_piece)]
    ELSE captured_pieces

\* the captured lists: the en passant branch appends whatever stood beside
\* the pawn; every other capture appends the captured piece
CapturedAfter(captured_pieces, piece, move_type, captured_piece) ==
    IF move_type = "en_passant" \/ IsPiece(captured_piece)
    THEN [captured_pieces EXCEPT ![piece.color] = Append(@, captured_piece)]
    ELSE captured_pieces

\* a variant that sets the target on a double advance but never resets it
EnPassantTargetAfter_NoReset(en_passant_target, piece, start_row, start_col, end_row) ==
    IF piece.kind = "P" /\ Abs(start_row - end_row) = 2
    THEN <<(start_row + end_row) \div 2, start_col>>
    ELSE en_passant_target

\* the en passant target for the next move: reset, then set by a pawn that
\* advanced two rows
EnPassantTargetAfter(en_passant_target, piece, start_row, start_col, end_row) ==
    IF piece.kind = "P" /\ Abs(start_row - end_row) = 2
    THEN <<(start_row + end_row) \div 2, start_col>>
    ELSE <<>>


\* a variant whose clock is reset by pawn moves only
HalfmoveAfter_PawnOnly(halfmove_clock, piece, captured_piece) ==
    IF piece.kind = "P" THEN 0 ELSE halfmove_clock + 1

HalfmoveAfter(halfmove_clock, piece, captured_piece) ==
    IF piece.kind = "P" \/ IsPiece(captured_piece) THEN 0 ELSE halfmove_clock + 1

FullmoveAfter(fullmove_counter, piece) ==
    IF piece.color = BLACK THEN fullmove_counter + 1 ELSE fullmove_counter

\* move_piece once the piece, the move type and the captured piece are known
ExecuteMove(b, piece, move_type, captured_piece, start_row, start_col, end_row, end_col) ==
    LET ept == EnPassantTargetAfter(b.en_passant_target, piece, start_row, start_col, end_row)
        hm == HalfmoveAfter(b.halfmove_clock, piece, captured_piece)
        fm == FullmoveAfter(b.fullmove_counter, piece)
        rec == [piece |-> [kind |-> piece.kind, color |-> piece.color],
                start |-> <<start_row, start_col>>,
                end |-> <<end_row, end_col>>,
                captured |-> captured_piece,
                en_passant |-> ept,
                castling |-> shallow_copy_castling,
                halfmove |-> hm,
                fullmove |-> fm]
    IN  [ok |-> TRUE,
         b |-> [board |-> PlacePiece(SpecialMoveGrid(b.board, move_type, start_row, end_col),
                                     piece, move_type, start_row, start_col, end_row, end_col),
                captured_pieces |->
                    CapturedAfter(b.captured_pieces, piece, move_type, captured_piece),
                move_history |-> Append(b.move_history, rec),
                king_positions |->
                    KingPositionsAfter(b.king_positions, piece, end_row, end_col),
                castling_rights |->
                    RookCaptureRights(
                        RookMoveRights(KingMoveRights(b.castling_rights, piece),
                                       piece, start_row, start_col),
                        captured_piece, end_row, end_col),
                en_passant_target |-> ept,
                halfmove_clock |-> hm,
                fullmove_counter |-> fm]]

MoveWithType(b, piece, move_type, start_row, start_col, end_row, end_col) ==
    ExecuteMove(b, piece, move_type,
                CapturedPiece(b, move_type, start_row, end_row, end_col),
                start_row, start_col, end_row, end_col)

\* a variant that advances the halfmove clock before looking at the start cell
move_piece_ClockFirst(b, start_row, start_col, end_row, end_col) ==
    IF ~IsPiece(b.board[start_row][start_col])
    THEN [ok |-> FALSE, b |-> [b EXCEPT !.halfmove_clock = @ + 1]]
    ELSE MoveWithType(b, b.board[start_row][start_col],
                      _get_move_type(b, b.board[start_row][start_col],
                                     start_row, start_col, end_row, end_col),
                      start_row, start_col, end_row, end_col)

\* Board.move_piece: the return value (ok) and the board after the call (b)
move_piece(b, start_row, start_col, end_row, end_col) ==
    IF ~IsPiece(b.board[start_row][start_col]) THEN [ok |-> FALSE, b |-> b]
    ELSE MoveWithType(b, b.board[start_row][start_col],
                      _get_move_type(b, b.board[start_row][start_col],
                                     start_row, start_col, end_row, end_col),
                      start_row, start_col, end_row, end_col)

\* ------------------------------------------------------------------------
\* board.py: Board.is_square_under_attack
\* ------------------------------------------------------------------------
KnightOffsets ==
    << <<-2, -1>>, <<-2, 1>>, <<-1, -2>>, <<-1, 2>>,
       <<1, -2>>, <<1, 2>>, <<2, -1>>, <<2, 1>> >>

DiagonalDirs == << <<-1, -1>>, <<-1, 1>>, <<1, -1>>, <<1, 1>> >>

StraightDirs == << <<-1, 0>>, <<1, 0>>, <<0, -1>>, <<0, 1>> >>

KingAttackOffsets ==
    << <<-1, -1>>, <<-1, 0>>, <<-1, 1>>, <<0, -1>>,
       <<0, 1>>, <<1, -1>>, <<1, 0>>, <<1, 1>> >>


\* a variant whose rays run through the pieces in their way
RayHits_Through(b, piece, d, row, col) ==
    \E i \in 1..7 :
        /\ piece.row + d[1] * i = row
        /\ piece.col + d[2] * i = col

\* one ray of the attack scan: step i reaches (row, col) and no earlier step
\* left the board or met a piece (the loop's break)
RayHits(b, piece, d, row, col) ==
    \E i \in 1..7 :
        /\ piece.row + d[1] * i = row
        /\ piece.col + d[2] * i = col
        /\ \A j \in 1..(i - 1) :
              /\ is_valid_position(piece.row + d[1] * j, piece.col + d[2] * j)
              /\ ~IsPiece(b.board[piece.row + d[1] * j][piece.col + d[2] * j])

PieceAttacks(b, piece, row, col) ==
    \/ /\ piece.kind = "P"
       /\ LET direction == IF piece.color = WHITE THEN -1 ELSE 1
          IN  /\ row = piece.row + direction
              /\ (col = piece.col - 1 \/ col = piece.col + 1)
    \/ /\ piece.kind = "N"
       /\ \E k \in 1..8 : /\ piece.row + KnightOffsets[k][1] = row
                          /\ piece.col + KnightOffsets[k][2] = col
    \/ /\ piece.kind \in {"B", "Q"}
       /\ \E k \in 1..4 : RayHits(b, piece, DiagonalDirs[k], row, col)
    \/ /\ piece.kind \in {"R", "Q"}
       /\ \E k \in 1..4 : RayHits(b, piece, StraightDirs[k], row, col)
    \/ /\ piece.kind = "K"
       /\ \E k \in 1..8 : /\ piece.row + KingAttackOffsets[k][1] = row
                          /\ piece.col + KingAttackOffsets[k][2] = col

is_square_under_attack(b, row, col, color) ==
    LET opponent_color == IF color = WHITE THEN BLACK ELSE WHITE
    IN  \E r \in Rows : \E c \in Rows :
            LET piece == b.board[r][c]
            IN  /\ IsPiece(piece)
                /\ piece.color = opponent_color
                /\ PieceAttacks(b, piece, row, col)

\* ------------------------------------------------------------------------
\* board.py: Board.is_in_check
\* ------------------------------------------------------------------------
is_in_check(b, color) ==
    is_square_under_attack(b, b.king_positions[color][1], b.king_positions[color][2], color)

\* ------------------------------------------------------------------------
\* pieces.py: get_potential_moves of each piece class (ordered lists)
\* ------------------------------------------------------------------------
RECURSIVE ConcatOver(_, _, _)
\* seqs[lo] \o ... \o seqs[hi], joined by halves
ConcatOver(seqs, lo, hi) ==
    IF lo = hi THEN seqs[lo]
    ELSE ConcatOver(seqs, lo, (lo + hi) \div 2) \o ConcatOver(seqs, (lo + hi) \div 2 + 1, hi)

Concat(seqs) == IF seqs = <<>> THEN <<>> ELSE ConcatOver(seqs, 1, Len(seqs))


\* a variant that finds the en passant square in the last record of the
\* history instead of en_passant_target
Pawn_get_potential_moves_FromHistory(self, b) ==
    LET direction == IF self.color = WHITE THEN -1 ELSE 1
        one == self.row + direction
        two == self.row + 2 * direction
        target ==
            IF b.move_history = <<>> THEN <<>>
            ELSE b.move_history[Len(b.move_history)].en_passant
        forward ==
            IF is_valid_position(one, self.col) /\ ~IsPiece(get_piece(b, one, self.col))
            THEN <<<<one, self.col>>>> \o
                 (IF /\ ~self.has_moved
                     /\ is_valid_position(two, self.col)
                     /\ ~IsPiece(get_piece(b, two, self.col))
                  THEN <<<<two, self.col>>>> ELSE <<>>)
            ELSE <<>>
        Capture(col_offset) ==
            LET new_col == self.col + col_offset
                new_row == self.row + direction
            IN  IF ~is_valid_position(new_row, new_col) THEN <<>>
                ELSE (IF /\ IsPiece(get_piece(b, new_row, new_col))
                         /\ get_piece(b, new_row, new_col).color # self.color
                      THEN <<<<new_row, new_col>>>> ELSE <<>>)
                     \o
                     (IF target = <<new_row, new_col>>
                      THEN <<<<new_row, new_col>>>> ELSE <<>>)
    IN  forward \o Capture(-1) \o Capture(1)


\* a variant without the en-passant capture
Pawn_get_potential_moves_NoTarget(self, b) ==
    LET direction == IF self.color = WHITE THEN -1 ELSE 1
        one == self.row + direction
        two == self.row + 2 * direction
        forward ==
            IF is_valid_position(one, self.col) /\ ~IsPiece(get_piece(b, one, self.col))
            THEN <<<<one, self.col>>>> \o
                 (IF /\ ~self.has_moved
                     /\ is_valid_position(two, self.col)
                     /\ ~IsPiece(get_piece(b, two, self.col))
                  THEN <<<<two, self.col>>>> ELSE <<>>)
            ELSE <<>>
        Capture(col_offset) ==
            LET new_col == self.col + col_offset
                new_row == self.row + direction
            IN  IF ~is_valid_position(new_row, new_col) THEN <<>>
                ELSE IF /\ IsPiece(get_piece(b, new_row, new_col))
                        /\ get_piece(b, new_row, new_col).color # self.color
                     THEN <<<<new_row, new_col>>>> ELSE <<>>
    IN  forward \o Capture(-1) \o Capture(1)

Pawn_get_potential_moves(self, b) ==
    LET direction == IF self.color = WHITE THEN -1 ELSE 1
        one == self.row + direction
        two == self.row + 2 * direction
        forward ==
            IF is_valid_position(one, self.col) /\ ~IsPiece(get_piece(b, one, self.col))
            THEN <<<<one, self.col>>>> \o
                 (IF /\ ~self.has_moved
                     /\ is_valid_position(two, self.col)
                     /\ ~IsPiece(get_piece(b, two, self.col))
                  THEN <<<<two, self.col>>>> ELSE <<>>)
            ELSE <<>>
        Capture(col_offset) ==
            LET new_col == self.col + col_offset
                new_row == self.row + direction
            IN  IF ~is_valid_position(new_row, new_col) THEN <<>>
                ELSE (IF /\ IsPiece(get_piece(b, new_row, new_col))
                         /\ get_piece(b, new_row, new_col).color # self.color
                      THEN <<<<new_row, new_col>>>> ELSE <<>>)
                     \o
                     (IF b.en_passant_target = <<new_row, new_col>>
                      THEN <<<<new_row, new_col>>>> ELSE <<>>)
    IN  forward \o Capture(-1) \o Capture(1)

\* the squares one direction adds from step i on: the run of empty squares
\* the loop appends before it breaks, then the square it breaks on when an
\* opposing piece stands there
Ray(self, b, d, i) ==
    LET new_row(k) == self.row + d[1] * k
        new_col(k) == self.col + d[2] * k
        Empty(k) == /\ is_valid_position(new_row(k), new_col(k))
                    /\ ~IsPiece(get_piece(b, new_row(k), new_col(k)))
        run == Cardinality({k \in i..7 : \A j \in i..k : Empty(j)})
        last == i + run
    IN  [k \in 1..run |-> <<new_row(i + k - 1), new_col(i + k - 1)>>]
        \o (IF /\ last <= 7
               /\ is_valid_position(new_row(last), new_col(last))
               /\ get_piece(b, new_row(last), new_col(last)).color # self.color
            THEN <<<<new_row(last), new_col(last)>>>>
            ELSE <<>>)

Slide(self, b, directions) ==
    Concat([k \in 1..Len(directions) |-> Ray(self, b, directions[k], 1)])

RookDirs == << <<-1, 0>>, <<0, 1>>, <<1, 0>>, <<0, -1>> >>

BishopDirs == << <<-1, -1>>, <<-1, 1>>, <<1, 1>>, <<1, -1>> >>

Rook_get_potential_moves(self, b) == Slide(self, b, RookDirs)

Bishop_get_potential_moves(self, b) == Slide(self, b, BishopDirs)

Queen_get_potential_moves(self, b) == Slide(self, b, RookDirs \o BishopDirs)

\* the step list shared by Knight and King: in bounds and not own piece
Steps(self, b, offsets) ==
    LET Ok(d) == /\ is_valid_position(self.row + d[1], self.col + d[2])
                 /\ LET piece == get_piece(b, self.row + d[1], self.col + d[2])
                    IN  ~IsPiece(piece) \/ piece.color # self.color
        kept == SelectSeq(offsets, Ok)
    IN  [k \in 1..Len(kept) |-> <<self.row + kept[k][1], self.col + kept[k][2]>>]

Knight_get_potential_moves(self, b) == Steps(self, b, KnightOffsets)

KingDirs ==
    << <<-1, 0>>, <<-1, 1>>, <<0, 1>>, <<1, 1>>,
       <<1, 0>>, <<1, -1>>, <<0, -1>>, <<-1, -1>> >>


\* a variant that tests only the landing square of the king for attack
King_get_potential_moves_LandingOnly(self, b) ==
    LET regular == Steps(self, b, KingDirs)
        can_kingside ==
            /\ b.castling_rights[self.color].kingside
            /\ \A col \in (self.col + 1)..6 : ~IsPiece(get_piece(b, self.row, col))
            /\ ~is_square_under_attack(b, self.row, self.col + 2, self.color)
        can_queenside ==
            /\ b.castling_rights[self.color].queenside
            /\ \A col \in 1..(self.col - 1) : ~IsPiece(get_piece(b, self.row, col))
            /\ ~is_square_under_attack(b, self.row, self.col - 2, self.color)
    IN  IF ~self.has_moved /\ ~is_in_check(b, self.color)
        THEN regular
             \o (IF can_kingside THEN <<<<self.row, self.col + 2>>>> ELSE <<>>)
             \o (IF can_queenside THEN <<<<self.row, self.col - 2>>>> ELSE <<>>)
        ELSE regular

King_get_potential_moves(self, b) ==
    LET regular == Steps(self, b, KingDirs)
        can_kingside ==
            /\ b.castling_rights[self.color].kingside
            /\ \A col \in (self.col + 1)..6 : ~IsPiece(get_piece(b, self.row, col))
            /\ \A col \in (self.col + 1)..(self.col + 2) :
                  ~is_square_under_attack(b, self.row, col, self.color)
        can_queenside ==
            /\ b.castling_rights[self.color].queenside
            /\ \A col \in 1..(self.col - 1) : ~IsPiece(get_piece(b, self.row, col))
            /\ \A col \in (self.col - 2)..(self.col - 1) :
                  ~is_square_under_attack(b, self.row, col, self.color)
    IN  IF ~self.has_moved /\ ~is_in_check(b, self.color)
        THEN regular
             \o (IF can_kingside THEN <<<<self.row, self.col + 2>>>> ELSE <<>>)
             \o (IF can_queenside THEN <<<<self.row, self.col - 2>>>> ELSE <<>>)
        ELSE regular

get_potential_moves(self, b) ==
    CASE self.kind = "P" -> Pawn_get_potential_moves(self, b)
      [] self.kind = "R" -> Rook_get_potential_moves(self, b)
      [] self.kind = "N" -> Knight_get_potential_moves(self, b)
      [] self.kind = "B" -> Bishop_get_potential_moves(self, b)
      [] self.kind = "Q" -> Queen_get_potential_moves(self, b)
      [] self.kind = "K" -> King_get_potential_moves(self, b)

\* ------------------------------------------------------------------------
\* board.py: Board.get_valid_moves
\* ------------------------------------------------------------------------
\* a variant that looks for check on the position before the candidate is
\* applied
get_valid_moves_ChecksOriginal(b, row, col) ==
    IF ~IsPiece(b.board[row][col]) THEN <<>>
    ELSE IF is_in_check(b, b.board[row][col].color) THEN <<>>
    ELSE get_potential_moves(b.board[row][col], b)

\* a variant without the own-king filter
get_valid_moves_Unfiltered(b, row, col) ==
    IF ~IsPiece(b.board[row][col]) THEN <<>>
    ELSE get_potential_moves(b.board[row][col], b)

get_valid_moves(b, row, col) ==
    LET piece == b.board[row][col] IN
    IF ~IsPiece(piece) THEN <<>>
    ELSE LET Safe(move) ==
                 LET temp_board == move_piece(deepcopy(b), row, col, move[1], move[2]).b
                 IN  ~is_in_check(temp_board, piece.color)
         IN  SelectSeq(get_potential_moves(piece, b), Safe)

\* the scan of is_checkmate / is_stalemate: some piece of the colour has a
\* non-empty get_valid_moves
HasValidMove(b, color) ==
    \E row \in Rows : \E col \in Rows :
        /\ IsPiece(b.board[row][col])
        /\ b.board[row][col].color = color
        /\ get_valid_moves(b, row, col) # <<>>

is_checkmate(b, color) == is_in_check(b, color) /\ ~HasValidMove(b, color)


\* a variant of is_stalemate without the is_in_check test
is_stalemate_IgnoresCheck(b, color) == ~HasValidMove(b, color)

is_stalemate(b, color) == ~is_in_check(b, color) /\ ~HasValidMove(b, color)

\* ------------------------------------------------------------------------
\* board.py: Board.is_draw_by_fifty_move_rule
\* ------------------------------------------------------------------------
is_draw_by_fifty_move_rule(b) == b.halfmove_clock >= 100

\* a variant satisfied with one move of the four played again
is_draw_by_threefold_repetition_AnyMove(b) ==
    IF Len(b.move_history) < 8 THEN FALSE
    ELSE LET recent_moves == SubSeq(b.move_history, Len(b.move_history) - 7,
                                    Len(b.move_history))
             move_pattern_1 == SubSeq(recent_moves, 1, 4)
             move_pattern_2 == SubSeq(recent_moves, 5, 8)
         IN  \E i \in 1..4 :
                 ~(\/ move_pattern_1[i].start # move_pattern_2[i].start
                   \/ move_pattern_1[i].end # move_pattern_2[i].end)

is_draw_by_threefold_repetition(b) ==
    IF Len(b.move_history) < 8 THEN FALSE
    ELSE LET recent_moves == SubSeq(b.move_history, Len(b.move_history) - 7,
                                    Len(b.move_history))
             move_pattern_1 == SubSeq(recent_moves, 1, 4)
             move_pattern_2 == SubSeq(recent_moves, 5, 8)
         IN  \A i \in 1..4 :
                 ~(\/ move_pattern_1[i].start # move_pattern_2[i].start
                   \/ move_pattern_1[i].end # move_pattern_2[i].end)

\* ------------------------------------------------------------------------
\* board.py: Board.is_draw_by_insufficient_material
\* ------------------------------------------------------------------------
RECURSIVE NonKingPieces(_, _)
NonKingPieces(b, k) ==
    IF k = 64 THEN <<>>
    ELSE LET piece == b.board[k \div 8][k % 8]
         IN  (IF IsPiece(piece) /\ piece.kind # "K" THEN <<piece>> ELSE <<>>)
             \o NonKingPieces(b, k + 1)


\* a variant that does not compare the squares of the two bishops
is_draw_by_insufficient_material_AnyBishops(b) ==
    IF Len(NonKingPieces(b, 0)) = 0 THEN TRUE
    ELSE IF Len(NonKingPieces(b, 0)) = 1
    THEN NonKingPieces(b, 0)[1].kind = "B" \/ NonKingPieces(b, 0)[1].kind = "N"
    ELSE Len(NonKingPieces(b, 0)) = 2 /\ NonKingPieces(b, 0)[1].kind = "B"
                                      /\ NonKingPieces(b, 0)[2].kind = "B"

is_draw_by_insufficient_material(b) ==
    LET pieces == NonKingPieces(b, 0) IN
    IF Len(pieces) = 0 THEN TRUE
    ELSE IF Len(pieces) = 1 THEN pieces[1].kind = "B" \/ pieces[1].kind = "N"
    ELSE IF Len(pieces) = 2 /\ pieces[1].kind = "B" /\ pieces[2].kind = "B"
         THEN (pieces[1].row + pieces[1].col) % 2 = (pieces[2].row + pieces[2].col) % 2
    ELSE FALSE

\* ------------------------------------------------------------------------
\* game.py: ChessGame.  A game is the record of the fields make_move reads
\* and writes.
\* ------------------------------------------------------------------------
InSeq(x, s) == \E i \in 1..Len(s) : s[i] = x

Range(s) == {s[i] : i \in 1..Len(s)}

NewGame ==
    [board |-> NewBoard, turn |-> WHITE, game_over |-> FALSE, winner |-> "None",
     last_move |-> <<>>]


\* a variant that hands the turn to Black after every move
ConcludeMove_BlackNext(g, piece, nb) ==
    LET opponent_color == IF piece.color = WHITE THEN BLACK ELSE WHITE
        g2 == [g EXCEPT !.board = nb, !.turn = BLACK]
    IN  [ok |-> TRUE,
         g |-> IF is_checkmate(nb, opponent_color)
               THEN [g2 EXCEPT !.game_over = TRUE, !.winner = piece.color]
               ELSE IF is_stalemate(nb, opponent_color)
               THEN [g2 EXCEPT !.game_over = TRUE, !.winner = "None"]
               ELSE IF is_draw_by_insufficient_material(nb)
               THEN [g2 EXCEPT !.game_over = TRUE, !.winner = "None"]
               ELSE g2]

\* a variant that does not end the game on a stalemate
ConcludeMove_NoStalemate(g, piece, nb) ==
    LET opponent_color == IF piece.color = WHITE THEN BLACK ELSE WHITE
        g2 == [g EXCEPT !.board = nb,
                        !.turn = IF g.turn = WHITE THEN BLACK ELSE WHITE]
    IN  [ok |-> TRUE,
         g |-> IF is_checkmate(nb, opponent_color)
               THEN [g2 EXCEPT !.game_over = TRUE, !.winner = piece.color]
               ELSE IF is_draw_by_insufficient_material(nb)
               THEN [g2 EXCEPT !.game_over = TRUE, !.winner = "None"]
               ELSE g2]

\* make_move after a successful move_piece: the turn switch and the end of
\* the game
ConcludeMove(g, piece, nb) ==
    LET opponent_color == IF piece.color = WHITE THEN BLACK ELSE WHITE
        g2 == [g EXCEPT !.board = nb,
                        !.turn = IF g.turn = WHITE THEN BLACK ELSE WHITE]
    IN  [ok |-> TRUE,
         g |-> IF is_checkmate(nb, opponent_color)
               THEN [g2 EXCEPT !.game_over = TRUE, !.winner = piece.color]
               ELSE IF is_stalemate(nb, opponent_color)
               THEN [g2 EXCEPT !.game_over = TRUE, !.winner = "None"]
               ELSE IF is_draw_by_insufficient_material(nb)
               THEN [g2 EXCEPT !.game_over = TRUE, !.winner = "None"]
               ELSE g2]

\* make_move from the recording of last_move on; move_result is the outcome
\* of Board.move_piece
RecordAndMove(g, piece, start, end, move_result) ==
    IF ~move_result.ok
    THEN [ok |-> FALSE, g |-> [g EXCEPT !.last_move = <<start, end>>]]
    ELSE ConcludeMove([g EXCEPT !.last_move = <<start, end>>], piece, move_result.b)

\* a variant that records last_move before the destination is validated
make_move_RecordsFirst(g, start, end) ==
    LET piece == get_piece(g.board, start[1], start[2])
    IN  IF ~IsPiece(piece) \/ piece.color # g.turn THEN [ok |-> FALSE, g |-> g]
        ELSE IF ~InSeq(<<end[1], end[2]>>, get_valid_moves(g.board, start[1], start[2]))
        THEN [ok |-> FALSE, g |-> [g EXCEPT !.last_move = <<start, end>>]]
        ELSE RecordAndMove(g, piece, start, end,
                           move_piece(g.board, start[1], start[2], end[1], end[2]))

\* ChessGame.make_move: the return value (ok) and the game after the call (g)
make_move(g, start, end) ==
    LET piece == get_piece(g.board, start[1], start[2])
    IN  IF ~IsPiece(piece) \/ piece.color # g.turn THEN [ok |-> FALSE, g |-> g]
        ELSE IF ~InSeq(<<end[1], end[2]>>, get_valid_moves(g.board, start[1], start[2]))
        THEN [ok |-> FALSE, g |-> g]
        ELSE RecordAndMove(g, piece, start, end,
                           move_piece(g.board, start[1], start[2], end[1], end[2]))

\* ------------------------------------------------------------------------
\* constants.py: the evaluation weights.  The module is not among the
\* sources; the material values are the usual centipawn values, which the
\* thresholds of _determine_game_phase (5000, 3000) presuppose, and the
\* piece-square tables are taken as flat.
\* ------------------------------------------------------------------------
PIECE_VALUES == [P |-> 100, N |-> 320, B |-> 330, R |-> 500, Q |-> 900, K |-> 20000]

PositionalTable(kind, color, game_phase, row, col) == 0

\* ------------------------------------------------------------------------
\* ai.py: ChessAI.  The object is the record of the fields the search reads
\* and writes; a method that updates the transposition table returns the
\* object after the call (self).
\* ------------------------------------------------------------------------
\* float('inf')
Inf == 1000000000

Max(a, b) == IF a >= b THEN a ELSE b

Min(a, b) == IF a <= b THEN a ELSE b

RECURSIVE SumOver(_, _, _)
\* f[lo] + ... + f[hi], added by halves
SumOver(f, lo, hi) ==
    IF lo = hi THEN f[lo]
    ELSE SumOver(f, lo, (lo + hi) \div 2) + SumOver(f, (lo + hi) \div 2 + 1, hi)

\* f[1] + ... + f[n]
SumTo(f, n) == IF n = 0 THEN 0 ELSE SumOver(f, 1, n)

\* the squares in the order of "for row in range(8): for col in range(8)"
Squares64 == [k \in 1..64 |-> <<(k - 1) \div 8, (k - 1) % 8>>]

EmptyTable == [h \in {} |-> [score |-> 0, depth |-> 0]]

ChessAI(color, difficulty) ==
    [color |-> color,
     difficulty |-> difficulty,
     max_depth |-> difficulty + 1,
     transposition_table |-> EmptyTable]

\* ChessAI._get_all_valid_moves: the dict as the list of its items, in
\* insertion order
\* a variant that lists the moves of the pieces before the check test
MovesAt_Potential(board_, color, pos) ==
    IF /\ IsPiece(get_piece(board_, pos[1], pos[2]))
       /\ get_piece(board_, pos[1], pos[2]).color = color
    THEN get_potential_moves(get_piece(board_, pos[1], pos[2]), board_)
    ELSE <<>>

MovesAt(board_, color, pos) ==
    IF /\ IsPiece(get_piece(board_, pos[1], pos[2]))
       /\ get_piece(board_, pos[1], pos[2]).color = color
    THEN get_valid_moves(board_, pos[1], pos[2])
    ELSE <<>>

HasMoves(item) == item[2] # <<>>

_get_all_valid_moves(board_, color) ==
    SelectSeq([k \in 1..64 |-> <<Squares64[k], MovesAt(board_, color, Squares64[k])>>],
              HasMoves)

\* the moves of a dict of moves in the order of the nested loops
\* "for piece_pos, moves in items: for move in moves"
Candidates(items) ==
    Concat([i \in 1..Len(items) |->
               [j \in 1..Len(items[i][2]) |-> <<items[i][1], items[i][2][j]>>]])

\* valid_moves[pos] if pos is a key, else the empty list
Lookup(items, pos) ==
    IF \E i \in 1..Len(items) : items[i][1] = pos
    THEN items[CHOOSE i \in 1..Len(items) : items[i][1] = pos][2]
    ELSE <<>>

\* a variant that applies the move to the board it is given
_make_temp_move_NoCopy(board_, start_pos, end_pos) ==
    [temp_board |-> move_piece(board_, start_pos[1], start_pos[2], end_pos[1], end_pos[2]).b,
     board |-> move_piece(board_, start_pos[1], start_pos[2], end_pos[1], end_pos[2]).b]

\* ChessAI._make_temp_move: the board returned (temp_board) and the board
\* that was passed in, after the call (board)
_make_temp_move(board_, start_pos, end_pos) ==
    [temp_board |-> move_piece(deepcopy(board_),
                               start_pos[1], start_pos[2], end_pos[1], end_pos[2]).b,
     board |-> board_]

\* ChessAI._get_board_hash: the placement string, one (colour, symbol) pair
\* per square
_get_board_hash(board_) ==
    [k \in 1..64 |->
        IF IsPiece(get_piece(board_, Squares64[k][1], Squares64[k][2]))
        THEN <<IF get_piece(board_, Squares64[k][1], Squares64[k][2]).color = WHITE
               THEN "w" ELSE "b",
               get_piece(board_, Squares64[k][1], Squares64[k][2]).kind>>
        ELSE <<"x", "x">>]

\* ChessAI._determine_game_phase
NonKingValue(board_, pos) ==
    IF IsPiece(get_piece(board_, pos[1], pos[2])) /\ get_piece(board_, pos[1], pos[2]).kind # "K"
    THEN PIECE_VALUES[get_piece(board_, pos[1], pos[2]).kind]
    ELSE 0

PhaseOf(total_value, queens_present) ==
    IF total_value > 5000 /\ queens_present THEN "early"
    ELSE IF total_value < 3000 THEN "late"
    ELSE "mid"

_determine_game_phase(board_) ==
    PhaseOf(SumTo([k \in 1..64 |-> NonKingValue(board_, Squares64[k])], 64),
            \E k \in 1..64 : get_piece(board_, Squares64[k][1], Squares64[k][2]).kind = "Q")

\* ChessAI._get_positional_value
_get_positional_value(piece, row, col, game_phase) ==
    PositionalTable(piece.kind, piece.color,
                    IF piece.kind = "K" /\ game_phase = "late" THEN "late" ELSE "early",
                    IF piece.color = BLACK THEN 7 - row ELSE row, col)

\* ChessAI._evaluate_king_safety
KingNeighbours == << <<-1, -1>>, <<-1, 0>>, <<-1, 1>>, <<0, -1>>,
                     <<0, 1>>, <<1, -1>>, <<1, 0>>, <<1, 1>> >>

KingSafetyAt(board_, color, king_row, king_col) ==
    (IF is_in_check(board_, color) THEN -150 ELSE 0)
    - 20 * Cardinality({k \in 1..8 :
              /\ is_valid_position(king_row + KingNeighbours[k][1],
                                   king_col + KingNeighbours[k][2])
              /\ is_square_under_attack(board_, king_row + KingNeighbours[k][1],
                                        king_col + KingNeighbours[k][2], color)})
    + (IF /\ king_row = (IF color = WHITE THEN 7 ELSE 0)
          /\ king_col \in {6, 2}
       THEN 100 ELSE 0)
    + 30 * Cardinality({dc \in {-1, 0, 1} :
              LET shield_row == king_row + (IF color = WHITE THEN -1 ELSE 1)
                  piece == get_piece(board_, shield_row, king_col + dc)
              IN  /\ is_valid_position(shield_row, king_col + dc)
                  /\ piece.kind = "P"
                  /\ piece.color = color})

_evaluate_king_safety(board_, color) ==
    KingSafetyAt(board_, color, board_.king_positions[color][1],
                 board_.king_positions[color][2])

\* ChessAI._evaluate_pawn_structure
IsPawnOf(board_, color, row, col) ==
    /\ is_valid_position(row, col)
    /\ board_.board[row][col].kind = "P"
    /\ board_.board[row][col].color = color

\* the rows of range(row + direction, 0 if color == WHITE else 7, direction)
RowsAhead(color, row) ==
    IF color = WHITE THEN {r \in Rows : 0 < r /\ r < row} ELSE {r \in Rows : row < r /\ r < 7}

PawnTerms(board_, color, pawns, row, col) ==
    (IF \E p \in pawns : p[2] = col - 1 \/ p[2] = col + 1 THEN 0 ELSE -15)
    + (IF \E r \in RowsAhead(color, row), c \in {col - 1, col, col + 1} :
             IsPawnOf(board_, Opponent(color), r, c)
       THEN 0
       ELSE 20 + 10 * Abs(row - (IF color = WHITE THEN 7 ELSE 0)))
    + 10 * Cardinality({c \in {col - 1, col + 1} :
                           IsPawnOf(board_, color, row + (IF color = WHITE THEN 1 ELSE -1), c)})

PawnStructureOf(board_, color, pawns) ==
    SumTo([c \in 1..8 |->
              IF Cardinality({p \in pawns : p[2] = c - 1}) > 1
              THEN -20 * (Cardinality({p \in pawns : p[2] = c - 1}) - 1)
              ELSE 0], 8)
    + SumTo([k \in 1..64 |->
                IF Squares64[k] \in pawns
                THEN PawnTerms(board_, color, pawns, Squares64[k][1], Squares64[k][2])
                ELSE 0], 64)

_evaluate_pawn_structure(board_, color) ==
    PawnStructureOf(board_, color,
                    {pos \in Rows \X Rows : IsPawnOf(board_, color, pos[1], pos[2])})

\* ChessAI._evaluate_mobility
MobilityOf(piece, moves) ==
    Len(moves) * 5 + (IF piece.kind \in {"N", "B"} THEN Len(moves) * 2 ELSE 0)

_evaluate_mobility(board_, color) ==
    SumTo([k \in 1..64 |->
              IF /\ IsPiece(board_.board[Squares64[k][1]][Squares64[k][2]])
                 /\ board_.board[Squares64[k][1]][Squares64[k][2]].color = color
              THEN MobilityOf(board_.board[Squares64[k][1]][Squares64[k][2]],
                              get_valid_moves(board_, Squares64[k][1], Squares64[k][2]))
              ELSE 0], 64)

\* ChessAI._evaluate_board
PieceScore(self, piece, row, col, game_phase) ==
    IF ~IsPiece(piece) THEN 0
    ELSE IF piece.color = self.color
    THEN PIECE_VALUES[piece.kind] + _get_positional_value(piece, row, col, game_phase)
    ELSE -(PIECE_VALUES[piece.kind] + _get_positional_value(piece, row, col, game_phase))

MaterialScore(self, board_, game_phase) ==
    SumTo([k \in 1..64 |->
              PieceScore(self, board_.board[Squares64[k][1]][Squares64[k][2]],
                         Squares64[k][1], Squares64[k][2], game_phase)], 64)


\* a variant that scores the checkmates from White's side whatever the
\* colour of the AI
_evaluate_board_WhiteSide(self, board_) ==
    IF is_checkmate(board_, BLACK) THEN 100000
    ELSE IF is_checkmate(board_, WHITE) THEN -100000
    ELSE IF is_stalemate(board_, WHITE) \/ is_stalemate(board_, BLACK) THEN 0
    ELSE MaterialScore(self, board_, _determine_game_phase(board_))
         + _evaluate_king_safety(board_, self.color)
         - _evaluate_king_safety(board_, Opponent(self.color))
         + _evaluate_pawn_structure(board_, self.color)
         - _evaluate_pawn_structure(board_, Opponent(self.color))
         + _evaluate_mobility(board_, self.color)
         - _evaluate_mobility(board_, Opponent(self.color))

_evaluate_board(self, board_) ==
    IF is_checkmate(board_, Opponent(self.color)) THEN 100000
    ELSE IF is_checkmate(board_, self.color) THEN -100000
    ELSE IF is_stalemate(board_, WHITE) \/ is_stalemate(board_, BLACK) THEN 0
    ELSE MaterialScore(self, board_, _determine_game_phase(board_))
         + _evaluate_king_safety(board_, self.color)
         - _evaluate_king_safety(board_, Opponent(self.color))
         + _evaluate_pawn_structure(board_, self.color)
         - _evaluate_pawn_structure(board_, Opponent(self.color))
         + _evaluate_mobility(board_, self.color)
         - _evaluate_mobility(board_, Opponent(self.color))

\* ChessAI._order_moves.  The sort key is ten times the Python score, which
\* keeps it an integer: target_value - piece_value/10 - 5 * center_distance
\* with center_distance = (|2r - 7| + |2c - 7|) / 2.
MoveScore(board_, piece_pos, move) ==
    (IF IsPiece(get_piece(board_, move[1], move[2]))
     THEN 10 * PIECE_VALUES[get_piece(board_, move[1], move[2]).kind]
          - PIECE_VALUES[get_piece(board_, piece_pos[1], piece_pos[2]).kind]
     ELSE 0)
    - 25 * (Abs(2 * move[1] - 7) + Abs(2 * move[2] - 7))

\* (score, piece_pos, move) tuples in the order of sort(reverse=True)
SortsBefore(a, b) ==
    LET x == <<a[1], a[2][1], a[2][2], a[3][1], a[3][2]>>
        y == <<b[1], b[2][1], b[2][2], b[3][1], b[3][2]>>
    IN  \E i \in 1..5 : x[i] > y[i] /\ \A j \in 1..(i - 1) : x[j] = y[j]

\* the regrouping by piece: pieces by first appearance, each with its moves
\* in sorted order
Regroup(scored_moves) ==
    LET IsFirst(k) == \A j \in 1..(k - 1) : scored_moves[j][2] # scored_moves[k][2]
        heads == SelectSeq([k \in 1..Len(scored_moves) |-> k], IsFirst)
        MovesOf(pos) ==
            LET OfPos(e) == e[2] = pos
                mine == SelectSeq(scored_moves, OfPos)
            IN  [j \in 1..Len(mine) |-> mine[j][3]]
    IN  [i \in 1..Len(heads) |->
            <<scored_moves[heads[i]][2], MovesOf(scored_moves[heads[i]][2])>>]

ScoredMoves(board_, cands) ==
    [k \in 1..Len(cands) |-> <<MoveScore(board_, cands[k][1], cands[k][2]),
                               cands[k][1], cands[k][2]>>]

_order_moves(board_, valid_moves) ==
    Regroup(SortSeq(ScoredMoves(board_, Candidates(valid_moves)), SortsBefore))

\* ChessAI._get_quick_opening_move
FirstOfOrdered(ordered_moves, valid_moves) ==
    IF ordered_moves # <<>> /\ ordered_moves[1][2] # <<>>
    THEN <<ordered_moves[1][1], ordered_moves[1][2][1]>>
    ELSE IF valid_moves # <<>> THEN <<valid_moves[1][1], valid_moves[1][2][1]>>
    ELSE <<>>

_get_quick_opening_move(self, board_, valid_moves) ==
    LET pawn_row == IF self.color = WHITE THEN 6 ELSE 1
        forward_row == IF self.color = WHITE THEN pawn_row - 2 ELSE pawn_row + 2
        knight_row == IF self.color = WHITE THEN 7 ELSE 0
        good_target_row == IF self.color = WHITE THEN 5 ELSE 2
        Good(target_pos) == target_pos[1] = good_target_row /\ target_pos[2] \in {2, 5}
        Targets(col) == SelectSeq(Lookup(valid_moves, <<knight_row, col>>), Good)
    IN  IF InSeq(<<forward_row, 3>>, Lookup(valid_moves, <<pawn_row, 3>>))
        THEN << <<pawn_row, 3>>, <<forward_row, 3>> >>
        ELSE IF InSeq(<<forward_row, 4>>, Lookup(valid_moves, <<pawn_row, 4>>))
        THEN << <<pawn_row, 4>>, <<forward_row, 4>> >>
        ELSE IF Targets(1) # <<>> THEN << <<knight_row, 1>>, Targets(1)[1] >>
        ELSE IF Targets(6) # <<>> THEN << <<knight_row, 6>>, Targets(6)[1] >>
        ELSE FirstOfOrdered(_order_moves(board_, valid_moves), valid_moves)

\* ChessAI._minimax: the score returned and the object after the call
RECURSIVE _minimax(_, _, _, _, _, _)

RECURSIVE SearchOver(_, _, _, _, _, _, _)

Store(self, board_hash, score, depth) ==
    [score |-> score,
     self |-> [self EXCEPT !.transposition_table =
                   (board_hash :> [score |-> score, depth |-> depth]) @@ @]]

StoreResult(r, board_hash, depth) == Store(r.self, board_hash, r.score, depth)

IsTerminal(self, board_, depth) ==
    \/ depth = 0
    \/ is_checkmate(board_, self.color)
    \/ is_checkmate(board_, Opponent(self.color))
    \/ is_stalemate(board_, WHITE)
    \/ is_stalemate(board_, BLACK)

\* after the recursive call for candidate i returned r: the locals of the
\* loop (the object, the running score, the window) and whether the
\* alpha-beta test breaks out of it
SearchScored(r, board_, cands, i, best, alpha, beta, depth, is_maximizing) ==
    IF is_maximizing
    THEN [break |-> beta <= Max(alpha, Max(best, r.score)),
          self |-> r.self,
          best |-> Max(best, r.score),
          alpha |-> Max(alpha, Max(best, r.score)),
          beta |-> beta]
    ELSE [break |-> Min(beta, Min(best, r.score)) <= alpha,
          self |-> r.self,
          best |-> Min(best, r.score),
          alpha |-> alpha,
          beta |-> Min(beta, Min(best, r.score))]

\* one turn of the loop, for candidate i, from the locals s
SearchStep(s, board_, cands, i, depth, is_maximizing) ==
    SearchScored(
        _minimax(s.self, _make_temp_move(board_, cands[i][1], cands[i][2]).temp_board,
                 depth - 1, s.alpha, s.beta, ~is_maximizing),
        board_, cands, i, s.best, s.alpha, s.beta, depth, is_maximizing)

\* the turns of the loop for the candidates lo..hi in their order, up to a
\* break, from the locals s
SearchOver(s, board_, cands, lo, hi, depth, is_maximizing) ==
    IF s.break THEN s
    ELSE IF lo = hi THEN SearchStep(s, board_, cands, lo, depth, is_maximizing)
    ELSE LET first == SearchOver(s, board_, cands, lo, (lo + hi) \div 2, depth, is_maximizing)
         IN  IF first.break THEN first
             ELSE SearchOver(first, board_, cands, (lo + hi) \div 2 + 1, hi, depth, is_maximizing)

\* what the loop leaves to the return statement
SearchResult(s) == [score |-> s.best, self |-> s.self]

SearchLoop(self, board_, cands, i, best, alpha, beta, depth, is_maximizing) ==
    IF i > Len(cands) THEN [score |-> best, self |-> self]
    ELSE SearchResult(
             SearchOver([break |-> FALSE, self |-> self, best |-> best,
                         alpha |-> alpha, beta |-> beta],
                        board_, cands, i, Len(cands), depth, is_maximizing))


\* a variant that reuses a stored entry whatever its depth
MinimaxAt_AnyDepth(self, board_, board_hash, depth, alpha, beta, is_maximizing) ==
    IF board_hash \in DOMAIN self.transposition_table
    THEN [score |-> self.transposition_table[board_hash].score, self |-> self]
    ELSE IF IsTerminal(self, board_, depth)
    THEN Store(self, board_hash, _evaluate_board(self, board_), depth)
    ELSE StoreResult(
             SearchLoop(self, board_,
                        Candidates(_get_all_valid_moves(
                            board_, IF is_maximizing THEN self.color
                                    ELSE Opponent(self.color))),
                        1, IF is_maximizing THEN -Inf ELSE Inf,
                        alpha, beta, depth, is_maximizing),
             board_hash, depth)

MinimaxAt(self, board_, board_hash, depth, alpha, beta, is_maximizing) ==
    IF /\ board_hash \in DOMAIN self.transposition_table
       /\ self.transposition_table[board_hash].depth >= depth
    THEN [score |-> self.transposition_table[board_hash].score, self |-> self]
    ELSE IF IsTerminal(self, board_, depth)
    THEN Store(self, board_hash, _evaluate_board(self, board_), depth)
    ELSE StoreResult(
             SearchLoop(self, board_,
                        Candidates(_get_all_valid_moves(
                            board_, IF is_maximizing THEN self.color
                                    ELSE Opponent(self.color))),
                        1, IF is_maximizing THEN -Inf ELSE Inf,
                        alpha, beta, depth, is_maximizing),
             board_hash, depth)

_minimax(self, board_, depth, alpha, beta, is_maximizing) ==
    MinimaxAt(self, board_, _get_board_hash(board_), depth, alpha, beta, is_maximizing)

\* ChessAI.get_move: the move returned (<<>> for None), the object after the
\* call (self) and the board that was passed in, after the call (board).
\* The wall clock is the parameter late_after: the time limit is found
\* exceeded from the late_after-th root candidate on.  best_score is the
\* local of that name at the return (-Inf where the search was not begun).
RECURSIVE RootOver(_, _, _, _, _, _)

\* the locals of the root loop after candidate i, and whether the time
\* limit breaks out of it
RootNext(self, board_, cands, i, best_score, best_move, alpha, depth, late_after) ==
    [break |-> i >= late_after /\ best_move # <<>>,
     self |-> self, board |-> board_, best_score |-> best_score,
     best_move |-> best_move, alpha |-> alpha]


\* a variant that keeps the lower-scoring candidate
RootScored_KeepsLower(r, board_, cands, i, best_score, best_move, alpha, depth, late_after) ==
    IF best_move = <<>> \/ r.score < best_score
    THEN RootNext(r.self, board_, cands, i, r.score, cands[i],
                  Max(alpha, r.score), depth, late_after)
    ELSE RootNext(r.self, board_, cands, i, best_score, best_move,
                  Max(alpha, best_score), depth, late_after)

RootScored(r, board_, cands, i, best_score, best_move, alpha, depth, late_after) ==
    IF r.score > best_score
    THEN IF r.self.difficulty <= 2 /\ r.score > 5000
         THEN [break |-> TRUE, self |-> r.self, board |-> board_,
               best_score |-> r.score, best_move |-> cands[i], alpha |-> alpha]
         ELSE RootNext(r.self, board_, cands, i, r.score, cands[i],
                       Max(alpha, r.score), depth, late_after)
    ELSE RootNext(r.self, board_, cands, i, best_score, best_move,
                  Max(alpha, best_score), depth, late_after)

RootTry(self, made, cands, i, best_score, best_move, alpha, depth, late_after) ==
    RootScored(_minimax(self, made.temp_board, depth - 1, alpha, Inf, FALSE),
               made.board, cands, i, best_score, best_move, alpha, depth, late_after)

\* one turn of the root loop, for candidate i, from the locals s
RootStep(s, cands, i, depth, late_after) ==
    RootTry(s.self, _make_temp_move(s.board, cands[i][1], cands[i][2]),
            cands, i, s.best_score, s.best_move, s.alpha, depth, late_after)

\* the turns of the root loop for the candidates lo..hi in their order, up
\* to a break or return, from the locals s
RootOver(s, cands, lo, hi, depth, late_after) ==
    IF s.break THEN s
    ELSE IF lo = hi THEN RootStep(s, cands, lo, depth, late_after)
    ELSE LET first == RootOver(s, cands, lo, (lo + hi) \div 2, depth, late_after)
         IN  IF first.break THEN first
             ELSE RootOver(first, cands, (lo + hi) \div 2 + 1, hi, depth, late_after)

\* what the root loop leaves to the return statement
RootResult(s) ==
    [move |-> s.best_move, self |-> s.self, board |-> s.board, best_score |-> s.best_score]

RootLoop(self, board_, cands, i, best_score, best_move, alpha, depth, late_after) ==
    IF i > Len(cands)
    THEN [move |-> best_move, self |-> self, board |-> board_, best_score |-> best_score]
    ELSE RootResult(
             RootOver([break |-> FALSE, self |-> self, board |-> board_,
                       best_score |-> best_score, best_move |-> best_move,
                       alpha |-> alpha],
                      cands, i, Len(cands), depth, late_after))


\* ChessAI.get_move, the handler of an exception raised in the try block:
\* the first move of the first item of valid_moves; None for an empty dict
\* and, through the bare except, when the exception came before valid_moves
\* was assigned
get_move_fallback(assigned, valid_moves) ==
    IF ~assigned \/ valid_moves = <<>> THEN <<>>
    ELSE <<valid_moves[1][1], valid_moves[1][2][1]>>

\* what get_move can return when a statement of its try block raises
FailureOutcomes(self, board_) ==
    {get_move_fallback(assigned, _get_all_valid_moves(board_, self.color)) :
        assigned \in BOOLEAN}

DynamicDepth(self, total_moves) ==
    IF total_moves > 30 /\ self.max_depth > 2 THEN self.max_depth - 1 ELSE self.max_depth

GetMoveAmong(self, board_, valid_moves, late_after) ==
    IF valid_moves = <<>>
    THEN [move |-> <<>>, self |-> self, board |-> board_, best_score |-> -Inf]
    ELSE IF Len(Candidates(valid_moves)) = 1
    THEN [move |-> <<valid_moves[1][1], valid_moves[1][2][1]>>,
          self |-> self, board |-> board_, best_score |-> -Inf]
    ELSE IF self.difficulty = 1 /\ board_.fullmove_counter <= 3
    THEN [move |-> _get_quick_opening_move(self, board_, valid_moves),
          self |-> self, board |-> board_, best_score |-> -Inf]
    ELSE RootLoop(self, board_, Candidates(_order_moves(board_, valid_moves)), 1,
                  -Inf, <<>>, -Inf,
                  DynamicDepth(self, Len(Candidates(valid_moves))), late_after)

get_move(self, board_, late_after) ==
    GetMoveAmong(self, board_, _get_all_valid_moves(board_, self.color), late_after)

\* ------------------------------------------------------------------------
\* The environment: the games that are played.  Requests follow one of the
\* scripted games below (each a legal game from the starting arrangement,
\* as <<start_row, start_col, end_row, end_col>>, but for LineBlunder);
\* after the last move of an open line up to MaxFree further plies of any
\* legal move are played.
\* ------------------------------------------------------------------------
MaxFree == 1

\* both sides castle kingside
LineItalian ==
    << <<6, 4, 4, 4>>, <<1, 4, 3, 4>>, <<7, 6, 5, 5>>, <<0, 1, 2, 2>>, <<7, 5, 4, 2>>,
       <<0, 5, 3, 2>>, <<7, 4, 7, 6>>, <<0, 6, 2, 5>>, <<6, 3, 5, 3>>, <<0, 4, 0, 6>> >>

\* both sides castle queenside
LineLong ==
    << <<6, 3, 4, 3>>, <<1, 3, 3, 3>>, <<7, 1, 5, 2>>, <<0, 1, 2, 2>>, <<7, 2, 4, 5>>,
       <<0, 2, 3, 5>>, <<7, 3, 6, 3>>, <<0, 3, 1, 3>>, <<7, 4, 7, 2>>, <<0, 4, 0, 2>> >>

\* an en-passant capture by each colour
LineEnPassant ==
    << <<6, 4, 4, 4>>, <<1, 0, 3, 0>>, <<4, 4, 3, 4>>, <<1, 3, 3, 3>>, <<3, 4, 2, 3>>,
       <<3, 0, 4, 0>>, <<6, 1, 4, 1>>, <<4, 0, 5, 1>> >>

\* fool's mate: Black mates
LineFool ==
    << <<6, 5, 5, 5>>, <<1, 4, 3, 4>>, <<6, 6, 4, 6>>, <<0, 3, 4, 7>> >>

\* scholar's mate: White mates
LineScholar ==
    << <<6, 4, 4, 4>>, <<1, 4, 3, 4>>, <<7, 5, 4, 2>>, <<0, 1, 2, 2>>, <<7, 3, 3, 7>>,
       <<0, 6, 2, 5>>, <<3, 7, 1, 5>> >>

\* the ten-move stalemate
LineLoyd ==
    << <<6, 4, 5, 4>>, <<1, 0, 3, 0>>, <<7, 3, 3, 7>>, <<0, 0, 2, 0>>, <<3, 7, 3, 0>>,
       <<1, 7, 3, 7>>, <<6, 7, 4, 7>>, <<2, 0, 2, 7>>, <<3, 0, 1, 2>>, <<1, 5, 2, 5>>,
       <<1, 2, 1, 3>>, <<0, 4, 1, 5>>, <<1, 3, 1, 1>>, <<0, 3, 5, 3>>, <<1, 1, 0, 1>>,
       <<5, 3, 1, 7>>, <<0, 1, 0, 2>>, <<1, 5, 2, 6>>, <<0, 2, 2, 4>> >>

\* White gives check on ply 3
LineCheck ==
    << <<6, 4, 4, 4>>, <<1, 3, 3, 3>>, <<7, 5, 3, 1>> >>

\* a pinned knight
LinePin ==
    << <<6, 4, 4, 4>>, <<1, 3, 3, 3>>, <<7, 5, 3, 1>>, <<0, 1, 2, 2>>, <<6, 3, 5, 3>> >>

\* rooks leave their corners and come back
LineRooks ==
    << <<6, 0, 4, 0>>, <<1, 7, 3, 7>>, <<7, 0, 5, 0>>, <<0, 7, 2, 7>>, <<5, 0, 7, 0>>,
       <<2, 7, 0, 7>>, <<7, 6, 5, 5>>, <<0, 1, 2, 2>> >>

\* promotion with a capture on a corner, then a straight promotion
LinePromo ==
    << <<6, 7, 4, 7>>, <<1, 6, 3, 6>>, <<4, 7, 3, 6>>, <<1, 7, 2, 7>>, <<3, 6, 2, 6>>,
       <<2, 7, 3, 7>>, <<2, 6, 1, 6>>, <<3, 7, 4, 7>>, <<1, 6, 0, 7>>, <<4, 7, 5, 7>>,
       <<7, 6, 5, 5>>, <<5, 7, 6, 6>>, <<6, 0, 5, 0>>, <<6, 6, 7, 6>> >>

\* promotion capturing the rook on h1
LinePromoCap ==
    << <<6, 7, 4, 7>>, <<1, 6, 3, 6>>, <<4, 7, 3, 6>>, <<1, 7, 2, 7>>, <<3, 6, 2, 6>>,
       <<2, 7, 3, 7>>, <<2, 6, 1, 6>>, <<3, 7, 4, 7>>, <<1, 6, 0, 7>>, <<4, 7, 5, 7>>,
       <<7, 6, 5, 5>>, <<5, 7, 6, 6>>, <<6, 0, 5, 0>>, <<6, 6, 7, 7>> >>

\* a trade-down to king and knight against king
LineSparse ==
    << <<6, 3, 5, 3>>, <<0, 6, 2, 7>>, <<7, 2, 2, 7>>, <<1, 6, 2, 7>>, <<7, 6, 5, 7>>,
       <<1, 5, 3, 5>>, <<5, 3, 4, 3>>, <<1, 2, 3, 2>>, <<4, 3, 3, 2>>, <<1, 1, 2, 1>>,
       <<3, 2, 2, 1>>, <<1, 0, 2, 1>>, <<7, 3, 1, 3>>, <<0, 4, 1, 3>>, <<6, 6, 5, 6>>,
       <<0, 0, 6, 0>>, <<7, 0, 6, 0>>, <<3, 5, 4, 5>>, <<5, 6, 4, 5>>, <<0, 2, 2, 0>>,
       <<6, 0, 2, 0>>, <<0, 1, 2, 0>>, <<5, 7, 3, 6>>, <<2, 7, 3, 6>>, <<4, 5, 3, 6>>,
       <<1, 7, 2, 7>>, <<3, 6, 2, 7>>, <<0, 5, 2, 7>>, <<6, 1, 4, 1>>, <<2, 0, 4, 1>>,
       <<6, 4, 5, 4>>, <<4, 1, 6, 2>>, <<7, 4, 6, 4>>, <<2, 7, 5, 4>>, <<6, 5, 5, 4>>,
       <<6, 2, 5, 4>>, <<6, 4, 5, 4>>, <<0, 7, 6, 7>>, <<7, 7, 6, 7>>, <<0, 3, 0, 5>>,
       <<6, 7, 2, 7>>, <<0, 5, 2, 7>>, <<5, 4, 4, 4>>, <<2, 1, 3, 1>>, <<7, 5, 3, 1>>,
       <<2, 7, 2, 2>>, <<3, 1, 2, 2>>, <<1, 3, 2, 2>>, <<4, 4, 4, 5>>, <<1, 4, 3, 4>>,
       <<4, 5, 3, 4>> >>

\* the check of LineCheck answered by a pawn move that ignores it, and the
\* bishop then taking the king: requests the game has to refuse
LineBlunder ==
    << <<6, 4, 4, 4>>, <<1, 3, 3, 3>>, <<7, 5, 3, 1>>, <<1, 0, 2, 0>>, <<3, 1, 0, 4>> >>

\* the trade-down continued to king, queen and pawn against the king on a2,
\* Black to move and mate (Qh1-a8)
LineMate ==
    << <<6, 3, 5, 3>>, <<0, 6, 2, 7>>, <<7, 2, 2, 7>>, <<1, 6, 2, 7>>, <<7, 6, 5, 7>>,
       <<1, 5, 3, 5>>, <<5, 3, 4, 3>>, <<1, 2, 3, 2>>, <<4, 3, 3, 2>>, <<1, 1, 2, 1>>,
       <<3, 2, 2, 1>>, <<1, 0, 2, 1>>, <<7, 3, 1, 3>>, <<0, 4, 1, 3>>, <<6, 6, 5, 6>>,
       <<0, 0, 6, 0>>, <<7, 0, 6, 0>>, <<3, 5, 4, 5>>, <<5, 6, 4, 5>>, <<0, 2, 2, 0>>,
       <<6, 0, 2, 0>>, <<0, 1, 2, 0>>, <<5, 7, 3, 6>>, <<2, 7, 3, 6>>, <<4, 5, 3, 6>>,
       <<1, 7, 2, 7>>, <<3, 6, 2, 7>>, <<0, 5, 2, 7>>, <<6, 1, 4, 1>>, <<2, 0, 4, 1>>,
       <<6, 4, 5, 4>>, <<4, 1, 6, 2>>, <<7, 4, 6, 4>>, <<2, 7, 5, 4>>, <<6, 5, 5, 4>>,
       <<6, 2, 5, 4>>, <<6, 4, 5, 4>>, <<0, 7, 6, 7>>, <<7, 7, 6, 7>>, <<0, 3, 0, 5>>,
       <<6, 7, 2, 7>>, <<0, 5, 2, 7>>, <<5, 4, 4, 4>>, <<2, 1, 3, 1>>, <<7, 1, 5, 0>>,
       <<3, 1, 4, 1>>, <<4, 4, 5, 3>>, <<4, 1, 5, 0>>, <<5, 3, 6, 2>>, <<1, 3, 2, 2>>,
       <<6, 2, 7, 1>>, <<2, 2, 3, 2>>, <<7, 1, 7, 0>>, <<5, 0, 6, 0>>, <<7, 5, 6, 6>>,
       <<3, 2, 4, 2>>, <<6, 6, 7, 7>>, <<4, 2, 5, 2>>, <<7, 7, 6, 6>>, <<5, 2, 6, 2>>,
       <<6, 6, 7, 7>>, <<2, 7, 7, 7>>, <<7, 0, 6, 0>> >>

\* a check with a single legal reply (g7-g6)
LineForced ==
    << <<6, 4, 4, 4>>, <<1, 5, 2, 5>>, <<7, 3, 3, 7>> >>

\* the king's knights go out and back ShuffleCycles times (four plies a
\* cycle, no pawn move and no capture), then 1. e4 Nf6 2. Nc3 Nxe4
ShuffleCycles == 25

RECURSIVE Repeat(_, _)
Repeat(s, n) == IF n = 0 THEN <<>> ELSE s \o Repeat(s, n - 1)

LineShuffle ==
    Repeat(<< <<7, 6, 5, 5>>, <<0, 6, 2, 5>>, <<5, 5, 7, 6>>, <<2, 5, 0, 6>> >>,
           ShuffleCycles)
    \o << <<6, 4, 4, 4>>, <<0, 6, 2, 5>>, <<7, 1, 5, 2>>, <<2, 5, 4, 4>> >>

\* the king's rooks step aside and come back with the squares between king
\* and rook already cleared
LineCastleRights ==
    << <<6, 4, 4, 4>>, <<1, 4, 3, 4>>, <<7, 6, 5, 5>>, <<0, 6, 2, 5>>, <<7, 5, 6, 4>>,
       <<0, 5, 1, 4>>, <<7, 7, 7, 6>>, <<0, 7, 0, 6>>, <<7, 6, 7, 7>>, <<0, 6, 0, 7>> >>

\* a bishop on a6 bears on f1 once White has cleared f1 and g1
LineCastleAttacked ==
    << <<6, 4, 4, 4>>, <<1, 1, 2, 1>>, <<6, 6, 5, 6>>, <<0, 2, 2, 0>>, <<7, 5, 6, 6>>,
       <<0, 6, 2, 5>>, <<7, 6, 5, 5>>, <<1, 4, 2, 4>> >>

Book ==
    << LineItalian,
       LineLong,
       LineEnPassant,
       LineFool,
       LineScholar,
       LineLoyd,
       LineCheck,
       LinePin,
       LineRooks,
       LinePromo,
       LinePromoCap,
       LineSparse,
       LineBlunder,
       LineForced,
       LineMate,
       LineShuffle,
       LineCastleRights,
       LineCastleAttacked >>

\* the scripted games after whose last move any legal move may follow
OpenLines == {3, 7, 9, 12}

\* squares of the requests the game must reject: the source squares include
\* one beyond each edge of the board
ProbeStarts ==
    { <<-1, 4>>, <<8, 0>>, <<4, 8>>, <<3, -1>>,
      <<6, 4>>, <<1, 4>>, <<4, 4>>, <<7, 4>>, <<0, 4>>, <<7, 7>> }

ProbeEnds == { <<8, 4>>, <<4, -1>>, <<4, 4>>, <<5, 5>>, <<2, 2>> }

OnBoard(squares) == {sq \in squares : is_valid_position(sq[1], sq[2])}

VARIABLES board, turn, game_over, winner, last_move, ai, ai_move, last_call, result,
          connections, games, current_game_id, handler,
          local_color, game_status, opponent_disconnected, peer, inbox, outbox,
          state, paused, ai_thinking, threads, searched, started, frame

\* network.py, ChessServer: the fields the client threads share, and the
\* threads themselves
serverVars == <<connections, games, current_game_id, handler>>

\* network_game.py, NetworkGame: the fields of the local session beside its
\* game, the session of the other player (peer), and the messages the
\* server has forwarded to the one (inbox) and to the other (outbox)
networkVars == <<local_color, game_status, opponent_disconnected, peer, inbox, outbox>>

\* fixed_menu.py, MenuSystem: the screen, the flags of the AI turn (ai_move
\* is the third), the threads of _ai_calculate_move that have not ended, and
\* the game and position on which the thread that wrote ai_move was started,
\* the number of games started, and the place of the main thread in its
\* frame
menuVars == <<state, paused, ai_thinking, threads, searched, started, frame>>

\* the state outside the game and its AI
restVars == <<serverVars, networkVars, menuVars>>

gameVars == <<board, turn, game_over, winner, last_move>>

aiVars == <<ai, ai_move>>

vars == <<board, turn, game_over, winner, last_move, ai, ai_move, last_call, result,
         restVars>>

Game == [board |-> board, turn |-> turn, game_over |-> game_over, winner |-> winner,
         last_move |-> last_move]

Played == [i \in 1..Len(board.move_history) |->
              board.move_history[i].start \o board.move_history[i].end]

IsPrefix(s, t) == Len(s) <= Len(t) /\ SubSeq(t, 1, Len(s)) = s

OnBook == \E l \in 1..Len(Book) : IsPrefix(Played, Book[l])

FreePhase ==
    \E l \in OpenLines : /\ IsPrefix(Book[l], Played)
                         /\ Len(Played) < Len(Book[l]) + MaxFree

\* the sockets the server may accept, in the order of their names
MaxClients == 3

Clients == 1..MaxClients

\* a dict without keys
EmptyDict == [k \in {} |-> k]

\* the thread of a socket that has not connected yet
NewHandler == [pc |-> "new", game_id |-> -1, player_color |-> "None", players |-> 0,
               cursor |-> -1, size |-> 0]

\* ChessServer.__init__, and no client thread yet
NewServer ==
    /\ connections = EmptyDict
    /\ games = EmptyDict
    /\ current_game_id = 0
    /\ handler = [client \in Clients |-> NewHandler]

\* NetworkGame.__init__ of a session that has not been set up, and no peer
NoNetwork ==
    /\ local_color = "None"
    /\ game_status = "connecting"
    /\ opponent_disconnected = FALSE
    /\ peer = [connected |-> FALSE, game |-> NewGame, joined |-> 0]
    /\ inbox = <<>>
    /\ outbox = <<>>

\* MenuSystem.__init__
NoMenu ==
    /\ state = "main_menu"
    /\ paused = FALSE
    /\ ai_thinking = FALSE
    /\ threads = <<>>
    /\ searched = [game |-> 0, board |-> NewBoard]
    /\ started = 0
    /\ frame = "events"

\* no server, network game or menu is part of the games below
RestInit == NewServer /\ NoNetwork /\ NoMenu

Init ==
    /\ RestInit
    /\ board = NewBoard
    /\ turn = WHITE
    /\ game_over = FALSE
    /\ winner = "None"
    /\ last_move = <<>>
    /\ ai = ChessAI(BLACK, 1)
    /\ ai_move = <<>>
    /\ last_call = "init"
    /\ result = FALSE

\* the game fields after a call of make_move that returned r
GameReturned(r) ==
    /\ board' = r.g.board
    /\ turn' = r.g.turn
    /\ game_over' = r.g.game_over
    /\ winner' = r.g.winner
    /\ last_move' = r.g.last_move
    /\ last_call' = "make_move"
    /\ result' = r.ok

Returned(r) == GameReturned(r) /\ UNCHANGED <<aiVars, restVars>>

\* a call of ChessGame.make_move(start, end)
CallMakeMove(start, end) == Returned(make_move(Game, start, end))

\* the next move of a scripted game
PlayScripted ==
    \E l \in 1..Len(Book) :
        /\ IsPrefix(Played, Book[l])
        /\ Len(Played) < Len(Book[l])
        /\ CallMakeMove(<<Book[l][Len(Played) + 1][1], Book[l][Len(Played) + 1][2]>>,
                        <<Book[l][Len(Played) + 1][3], Book[l][Len(Played) + 1][4]>>)

\* any legal move of the side to move, after an open line
PlayFree ==
    /\ FreePhase
    /\ \E row \in Rows, col \in Rows :
          /\ IsPiece(board.board[row][col])
          /\ board.board[row][col].color = turn
          /\ \E end \in Range(get_valid_moves(board, row, col)) :
                CallMakeMove(<<row, col>>, end)

\* requests make_move must reject, by the reason
RequestOutOfRange ==
    /\ OnBook
    /\ \E start \in ProbeStarts, end \in ProbeEnds :
          /\ ~is_valid_position(start[1], start[2]) \/ ~is_valid_position(end[1], end[2])
          /\ CallMakeMove(start, end)

RequestEmptySource ==
    /\ OnBook
    /\ \E start \in OnBoard(ProbeStarts), end \in OnBoard(ProbeEnds) :
          /\ ~IsPiece(board.board[start[1]][start[2]])
          /\ CallMakeMove(start, end)

RequestWrongColor ==
    /\ OnBook
    /\ \E start \in OnBoard(ProbeStarts), end \in OnBoard(ProbeEnds) :
          /\ IsPiece(board.board[start[1]][start[2]])
          /\ board.board[start[1]][start[2]].color # turn
          /\ CallMakeMove(start, end)

RequestIllegalDestination ==
    /\ OnBook
    /\ \E start \in OnBoard(ProbeStarts) :
          /\ IsPiece(board.board[start[1]][start[2]])
          /\ board.board[start[1]][start[2]].color = turn
          /\ \E end \in OnBoard(ProbeEnds) \ Range(get_valid_moves(board, start[1], start[2])) :
                CallMakeMove(start, end)

\* the outcome r of a direct call of Board.move_piece
MovePieceReturned(r) ==
    /\ board' = r.b
    /\ result' = r.ok
    /\ last_call' = "move_piece"
    /\ UNCHANGED <<turn, game_over, winner, last_move, ai, ai_move, restVars>>

\* a direct call of Board.move_piece on a start square that holds no piece
MovePieceNoPiece ==
    /\ OnBook
    /\ \E start \in OnBoard(ProbeStarts), end \in OnBoard(ProbeEnds) :
          /\ ~IsPiece(board.board[start[1]][start[2]])
          /\ MovePieceReturned(move_piece(board, start[1], start[2], end[1], end[2]))

Next ==
    \/ PlayScripted
    \/ PlayFree
    \/ RequestOutOfRange
    \/ RequestEmptySource
    \/ RequestWrongColor
    \/ RequestIllegalDestination
    \/ MovePieceNoPiece

Spec == Init /\ [][Next]_vars

\* ------------------------------------------------------------------------
\* Games against the computer: game.py, ChessGame.run, the AI turn.  The
\* levels are those of the difficulty menu that the search can afford here.
\* ------------------------------------------------------------------------
Difficulties == {1, 2}

\* the search is run on positions of at most this many pieces
MaxSearchPieces == 4

\* the time limit runs out after one of the first MaxLate root moves, or never
MaxLate == 2

PieceCount(b) == Cardinality({sq \in Rows \X Rows : IsPiece(b.board[sq[1]][sq[2]])})

TotalMoves(b, color) == Len(Candidates(_get_all_valid_moves(b, color)))

\* get_move answers without a search
FastPath(self, b) ==
    \/ TotalMoves(b, self.color) <= 1
    \/ self.difficulty = 1 /\ b.fullmove_counter <= 3

Affordable(self, b) == FastPath(self, b) \/ PieceCount(b) <= MaxSearchPieces

\* the root moves after which the clock may be found past the limit; one
\* more than the number of moves is never
LateChoices(self, b) ==
    IF FastPath(self, b) THEN {1}
    ELSE (1..MaxLate) \cup {TotalMoves(b, self.color) + 1}

InitAI ==
    /\ RestInit
    /\ board = NewBoard
    /\ turn = WHITE
    /\ game_over = FALSE
    /\ winner = "None"
    /\ last_move = <<>>
    /\ \E difficulty \in Difficulties : ai = ChessAI(BLACK, difficulty)
    /\ ai_move = <<>>
    /\ last_call = "init"
    /\ result = FALSE

\* the outcome r of a call of black_player.get_move(self.board)
GetMoveReturned(r) ==
    /\ ai_move' = r.move
    /\ ai' = r.self
    /\ board' = r.board
    /\ last_call' = "get_move"
    /\ UNCHANGED <<turn, game_over, winner, last_move, result, restVars>>

\* the AI turn of the main loop, up to the return of get_move
AIThink ==
    /\ turn = BLACK
    /\ ~game_over
    /\ ai_move = <<>>
    /\ OnBook
    /\ Affordable(ai, board)
    /\ \E late_after \in LateChoices(ai, board) :
          GetMoveReturned(get_move(ai, board, late_after))

\* the AI turn of the main loop, from "if move:" on
AIPlay ==
    /\ ai_move # <<>>
    /\ ~game_over
    /\ GameReturned(make_move(Game, ai_move[1], ai_move[2]))
    /\ ai_move' = <<>>
    /\ UNCHANGED <<ai, restVars>>

\* a call of get_move on the board of a finished game, which the main loop
\* does not make
GetMoveGameOver ==
    /\ game_over
    /\ ai_move = <<>>
    /\ Affordable(ai, board)
    /\ \E late_after \in LateChoices(ai, board) :
          GetMoveReturned(get_move(ai, board, late_after))

\* the scripted games lead to the positions the computer is asked about
PlayBook ==
    /\ ai_move = <<>>
    /\ PlayScripted

NextAI ==
    \/ PlayBook
    \/ AIThink
    \/ AIPlay
    \/ GetMoveGameOver

SpecAI == InitAI /\ [][NextAI]_vars

\* ------------------------------------------------------------------------
\* Material positions: is_draw_by_insufficient_material reads the grid
\* only, so it is applied to positions late in a game: the two kings away
\* from their start squares and at most MaxExtra other pieces, of any kind
\* and colour, on the squares of MaterialSquares (two of each parity).
\* ------------------------------------------------------------------------
MaxExtra == 3

MaterialKinds == {"P", "N", "B", "R", "Q"}

MaterialSquares == {<<2, 2>>, <<2, 3>>, <<4, 5>>, <<5, 5>>}

\* an assignment of pieces ([kind, color]) to some of the squares
Placements ==
    UNION {[squares -> MaterialKinds \X Colors] :
              squares \in {s \in SUBSET MaterialSquares : Cardinality(s) <= MaxExtra}}

MaterialGrid(placement) ==
    [r \in Rows |-> [c \in Rows |->
        IF <<r, c>> \in DOMAIN placement
        THEN [Piece(placement[<<r, c>>][1], placement[<<r, c>>][2], r, c)
                 EXCEPT !.has_moved = TRUE]
        ELSE IF <<r, c>> = <<7, 6>> THEN [Piece("K", WHITE, 7, 6) EXCEPT !.has_moved = TRUE]
        ELSE IF <<r, c>> = <<0, 1>> THEN [Piece("K", BLACK, 0, 1) EXCEPT !.has_moved = TRUE]
        ELSE NoPiece]]

MaterialBoard(placement) ==
    [NewBoard EXCEPT !.board = MaterialGrid(placement),
                     !.fullmove_counter = 40,
                     !.king_positions = [white |-> <<7, 6>>, black |-> <<0, 1>>],
                     !.castling_rights = [white |-> [kingside |-> FALSE, queenside |-> FALSE],
                                          black |-> [kingside |-> FALSE, queenside |-> FALSE]]]

InitMaterial ==
    /\ RestInit
    /\ board \in {MaterialBoard(placement) : placement \in Placements}
    /\ turn = WHITE
    /\ game_over = FALSE
    /\ winner = "None"
    /\ last_move = <<>>
    /\ ai = ChessAI(BLACK, 1)
    /\ ai_move = <<>>
    /\ last_call = "init"
    /\ result = FALSE

\* a call of Board.is_draw_by_insufficient_material
CallInsufficientMaterial ==
    /\ last_call = "init"
    /\ last_call' = "is_draw_by_insufficient_material"
    /\ result' = is_draw_by_insufficient_material(board)
    /\ UNCHANGED <<board, turn, game_over, winner, last_move, ai, ai_move, restVars>>

NextMaterial == CallInsufficientMaterial

SpecMaterial == InitMaterial /\ [][NextMaterial]_vars

\* ------------------------------------------------------------------------
\* Searches: _minimax is called on late positions (the two kings and at
\* most MaxSearchExtra pawns or knights), with the table the earlier calls of
\* the same ChessAI have left, and get_move on a new ChessAI.  result holds
\* the depth, the side and the score of the last call, the number of
\* calls made, the entry the last call found for its position and, for
\* get_move, the root move after which the time limit was found exceeded.
\* ------------------------------------------------------------------------
MaxSearchExtra == 1

MaxCallDepth == 2

MaxCalls == 2

SearchKinds == {"P", "N"}

SearchSquares == {<<2, 3>>, <<4, 5>>}

SearchBoards ==
    {MaterialBoard(placement) :
        placement \in {p \in Placements :
                          /\ Cardinality(DOMAIN p) <= MaxSearchExtra
                          /\ DOMAIN p \subseteq SearchSquares
                          /\ \A sq \in DOMAIN p : p[sq][1] \in SearchKinds}}

\* a position given piece by piece, kings included
PositionBoard(placement, white_king, black_king) ==
    [NewBoard EXCEPT
        !.board = [r \in Rows |-> [c \in Rows |->
                      IF <<r, c>> \in DOMAIN placement
                      THEN [Piece(placement[<<r, c>>][1], placement[<<r, c>>][2], r, c)
                               EXCEPT !.has_moved = TRUE]
                      ELSE NoPiece]],
        !.fullmove_counter = 40,
        !.king_positions = [white |-> white_king, black |-> black_king],
        !.castling_rights = [white |-> [kingside |-> FALSE, queenside |-> FALSE],
                             black |-> [kingside |-> FALSE, queenside |-> FALSE]]]

\* Black to move: king b6 and queen e6 against king b8 and knight d6
MateRoot ==
    PositionBoard((<<0, 1>> :> <<"K", WHITE>>) @@ (<<2, 3>> :> <<"N", WHITE>>)
                  @@ (<<2, 1>> :> <<"K", BLACK>>) @@ (<<2, 4>> :> <<"Q", BLACK>>),
                  <<0, 1>>, <<2, 1>>)

\* the boards get_move's root loop hands to _minimax for the root moves
\* Qxd6+ and Qg8+ of MateRoot
MateBoards ==
    {_make_temp_move(MateRoot, <<2, 4>>, end).temp_board : end \in {<<2, 3>>, <<0, 6>>}}

InitSearch ==
    /\ RestInit
    /\ \/ /\ board \in SearchBoards
          /\ ai \in {ChessAI(color, difficulty) : color \in Colors, difficulty \in Difficulties}
       \/ /\ board \in MateBoards
          /\ ai = ChessAI(BLACK, 2)
    /\ turn = WHITE
    /\ game_over = FALSE
    /\ winner = "None"
    /\ last_move = <<>>
    /\ ai_move = <<>>
    /\ last_call = "init"
    /\ result = [depth |-> 0, is_maximizing |-> FALSE, score |-> 0, calls |-> 0,
                 found |-> {}, late_after |-> 0]

\* the colour that moves at a node of the search
SideToMove(self, is_maximizing) ==
    IF is_maximizing THEN self.color ELSE Opponent(self.color)

\* the entry of the position in the table, if there is one
Found(self, board_) ==
    {self.transposition_table[h] :
        h \in DOMAIN self.transposition_table \cap {_get_board_hash(board_)}}

MinimaxReturned(r, depth, is_maximizing) ==
    /\ ai' = r.self
    /\ result' = [depth |-> depth, is_maximizing |-> is_maximizing, score |-> r.score,
                  calls |-> result.calls + 1, found |-> Found(ai, board),
                  late_after |-> result.late_after]
    /\ last_call' = "_minimax"
    /\ UNCHANGED <<board, turn, game_over, winner, last_move, ai_move, restVars>>

\* a call of _minimax at a node where the side that has just moved is not
\* in check
CallMinimax ==
    \E depth \in 0..MaxCallDepth, is_maximizing \in BOOLEAN :
        /\ result.calls < MaxCalls
        /\ last_call \in {"init", "_minimax"}
        /\ ~is_in_check(board, Opponent(SideToMove(ai, is_maximizing)))
        /\ MinimaxReturned(_minimax(ai, board, depth, -Inf, Inf, is_maximizing),
                           depth, is_maximizing)

SearchReturned(r, late_after) ==
    /\ ai' = r.self
    /\ ai_move' = r.move
    /\ result' = [depth |-> ai.max_depth, is_maximizing |-> TRUE, score |-> r.best_score,
                  calls |-> result.calls + 1, found |-> Found(ai, board),
                  late_after |-> late_after]
    /\ last_call' = "get_move"
    /\ UNCHANGED <<board, turn, game_over, winner, last_move, restVars>>

\* the first call of get_move of a new ChessAI, with the AI to move; the
\* time limit is exceeded before the first root move, after one of the
\* first MaxLate, or never
CallGetMove ==
    /\ last_call = "init"
    /\ ~is_in_check(board, Opponent(ai.color))
    /\ \E late_after \in {0} \cup LateChoices(ai, board) :
          SearchReturned(get_move(ai, board, late_after), late_after)

\* a call of get_move in which a statement of the try block raises, before
\* or after the assignment of valid_moves, with the AI to move
GetMoveFails ==
    /\ last_call = "init"
    /\ ~is_in_check(board, Opponent(ai.color))
    /\ ai_move' \in FailureOutcomes(ai, board)
    /\ last_call' = "get_move_failed"
    /\ UNCHANGED <<board, turn, game_over, winner, last_move, ai, result, restVars>>

NextSearch ==
    \/ CallMinimax
    \/ CallGetMove
    \/ GetMoveFails

SpecSearch == InitSearch /\ [][NextSearch]_vars

\* ------------------------------------------------------------------------
\* network.py: ChessServer.  One thread per accepted socket runs
\* _handle_client; no lock guards connections, games or current_game_id, so
\* the threads interleave between the statements below.  A dict of players
\* is known by the client whose thread created it: a thread that still holds
\* a dict another thread has deleted or replaced in games writes to that
\* dict only.  The keys "white" and "black" of a dict of players are the
\* values of WHITE and BLACK.
\* ------------------------------------------------------------------------
playVars == <<board, turn, game_over, winner, last_move, ai, ai_move, last_call, result,
             networkVars, menuVars>>

Put(d, k, v) == [x \in DOMAIN d \cup {k} |-> IF x = k THEN v ELSE d[x]]

Del(d, k) == [x \in DOMAIN d \ {k} |-> d[x]]

Least(S) == CHOOSE x \in S : \A y \in S : x <= y

InitServer ==
    /\ NewServer
    /\ NoNetwork
    /\ NoMenu
    /\ board = NewBoard
    /\ turn = WHITE
    /\ game_over = FALSE
    /\ winner = "None"
    /\ last_move = <<>>
    /\ ai = ChessAI(BLACK, 1)
    /\ ai_move = <<>>
    /\ last_call = "init"
    /\ result = FALSE

\* _handle_client up to the call of _assign_to_game, and the iterator of
\* its loop
HandleClient ==
    \E client \in Clients :
        /\ handler[client].pc = "new"
        /\ connections' = Put(connections, client, "None")
        /\ handler' = [handler EXCEPT ![client].pc = "assign",
                                      ![client].cursor = -1,
                                      ![client].size = Cardinality(DOMAIN games)]
        /\ UNCHANGED <<games, current_game_id, playVars>>

\* the handler after the loop of _assign_to_game has looked at the next
\* game: the iterator raises when the dict has changed size, which ends
\* _handle_client in its finally clause
Looked(h) ==
    IF Cardinality(DOMAIN games) # h.size THEN [h EXCEPT !.pc = "cleanup"]
    ELSE IF {g \in DOMAIN games : g > h.cursor} = {} THEN [h EXCEPT !.pc = "create"]
    ELSE LET game_id == Least({g \in DOMAIN games : g > h.cursor})
             players == games[game_id].players
         IN  IF WHITE \notin DOMAIN players
             THEN [h EXCEPT !.pc = "take", !.game_id = game_id, !.player_color = WHITE,
                            !.players = games[game_id].id]
             ELSE IF BLACK \notin DOMAIN players
             THEN [h EXCEPT !.pc = "take", !.game_id = game_id, !.player_color = BLACK,
                            !.players = games[game_id].id]
             ELSE [h EXCEPT !.cursor = game_id]

\* _assign_to_game: one turn of the loop, up to the test of a slot
AssignLook ==
    \E client \in Clients :
        /\ handler[client].pc = "assign"
        /\ handler' = [handler EXCEPT ![client] = Looked(handler[client])]
        /\ UNCHANGED <<connections, games, current_game_id, playVars>>

\* games after players[color] = client on the dict the handler holds
Taken(h, client) ==
    IF h.game_id \in DOMAIN games /\ games[h.game_id].id = h.players
    THEN [games EXCEPT ![h.game_id].players = Put(@, h.player_color, client)]
    ELSE games

\* _assign_to_game: the assignment of the slot found empty
AssignTake ==
    \E client \in Clients :
        /\ handler[client].pc = "take"
        /\ games' = Taken(handler[client], client)
        /\ handler' = [handler EXCEPT ![client].pc = "assigned"]
        /\ UNCHANGED <<connections, current_game_id, playVars>>

\* _assign_to_game: game_id = self.current_game_id
AssignRead ==
    \E client \in Clients :
        /\ handler[client].pc = "create"
        /\ handler' = [handler EXCEPT ![client].pc = "bump",
                                      ![client].game_id = current_game_id]
        /\ UNCHANGED <<connections, games, current_game_id, playVars>>

\* _assign_to_game: self.current_game_id += 1
AssignBump ==
    \E client \in Clients :
        /\ handler[client].pc = "bump"
        /\ current_game_id' = current_game_id + 1
        /\ handler' = [handler EXCEPT ![client].pc = "store"]
        /\ UNCHANGED <<connections, games, playVars>>

\* _assign_to_game: self.games[game_id] = {"white": client}
AssignStore ==
    \E client \in Clients :
        /\ handler[client].pc = "store"
        /\ games' = Put(games, handler[client].game_id,
                        [id |-> client, players |-> [color \in {WHITE} |-> client]])
        /\ handler' = [handler EXCEPT ![client].pc = "assigned",
                                      ![client].player_color = WHITE,
                                      ![client].players = client]
        /\ UNCHANGED <<connections, current_game_id, playVars>>

\* _handle_client from the return of _assign_to_game to the receive loop;
\* len(self.games[game_id]) raises when the game is gone
Announce ==
    \E client \in Clients :
        /\ handler[client].pc = "assigned"
        /\ connections' = Put(connections, client,
                              <<handler[client].game_id, handler[client].player_color>>)
        /\ handler' = [handler EXCEPT ![client].pc =
                          IF handler[client].game_id \in DOMAIN games
                          THEN "loop" ELSE "cleanup"]
        /\ UNCHANGED <<games, current_game_id, playVars>>

\* the receive loop ends: the client has closed its socket
Disconnect ==
    \E client \in Clients :
        /\ handler[client].pc = "loop"
        /\ handler' = [handler EXCEPT ![client].pc = "cleanup"]
        /\ UNCHANGED <<connections, games, current_game_id, playVars>>

\* the dict of players without the slots client holds
Vacated(players, client) ==
    [color \in {c \in DOMAIN players : players[c] # client} |-> players[color]]

\* games after _cleanup_client has removed the player of player_id
Cleaned(client, player_id) ==
    IF player_id = "None" \/ player_id[1] \notin DOMAIN games THEN games
    ELSE IF DOMAIN Vacated(games[player_id[1]].players, client) = {}
    THEN Del(games, player_id[1])
    ELSE [games EXCEPT ![player_id[1]].players = Vacated(@, client)]

\* _cleanup_client
CleanupClient ==
    \E client \in Clients :
        /\ handler[client].pc = "cleanup"
        /\ games' = Cleaned(client, connections[client])
        /\ connections' = Del(connections, client)
        /\ handler' = [handler EXCEPT ![client].pc = "closed"]
        /\ UNCHANGED <<current_game_id, playVars>>

NextServer ==
    \/ HandleClient
    \/ AssignLook
    \/ AssignTake
    \/ AssignRead
    \/ AssignBump
    \/ AssignStore
    \/ Announce
    \/ Disconnect
    \/ CleanupClient

SpecServer == InitServer /\ [][NextServer]_vars

\* ------------------------------------------------------------------------
\* network_game.py: NetworkGame.  The local session and the session of the
\* other player each hold a ChessGame of their own; a move made by a click
\* is sent to the server, which forwards it to the other slot of the game
\* if it is taken (network.py, _process_client_message).  json turns the
\* squares of a move into lists, which make_move unpacks as it does tuples.
\* Both players follow the lines of NetBook.
\* ------------------------------------------------------------------------
\* a black knight comes to b1, the square of the first move of the line
LineVisitor ==
    << <<7, 1, 5, 2>>, <<0, 6, 2, 5>>, <<5, 2, 4, 0>>, <<2, 5, 4, 4>>, <<4, 0, 3, 2>>,
       <<4, 4, 6, 3>>, <<3, 2, 4, 0>>, <<6, 3, 7, 1>>, <<4, 0, 3, 2>> >>

NetBook == << LineEnPassant, LineFool, LineScholar, LineVisitor >>

\* the clients that may take the place of a player who has left
MaxJoins == 1

PlayedOf(b) == [i \in 1..Len(b.move_history) |->
                   b.move_history[i].start \o b.move_history[i].end]

\* the moves the player to move clicks on the board b
Clicks(b) ==
    {NetBook[l][Len(PlayedOf(b)) + 1] :
        l \in {k \in 1..Len(NetBook) : /\ IsPrefix(PlayedOf(b), NetBook[k])
                                       /\ Len(PlayedOf(b)) < Len(NetBook[k])}}

Message(type, start, end) == [type |-> type, start |-> start, end |-> end]

\* the two sessions after game_assignment and game_start
InitNetwork ==
    /\ NewServer
    /\ NoMenu
    /\ local_color \in Colors
    /\ game_status = "playing"
    /\ opponent_disconnected = FALSE
    /\ peer = [connected |-> TRUE, game |-> NewGame, joined |-> 0]
    /\ inbox = <<>>
    /\ outbox = <<>>
    /\ board = NewBoard
    /\ turn = WHITE
    /\ game_over = FALSE
    /\ winner = "None"
    /\ last_move = <<>>
    /\ ai = ChessAI(BLACK, 1)
    /\ ai_move = <<>>
    /\ last_call = "init"
    /\ result = FALSE

\* the local game after a call of make_move that returned r, made by caller
NetworkReturned(r, caller) ==
    /\ board' = r.g.board
    /\ turn' = r.g.turn
    /\ game_over' = r.g.game_over
    /\ winner' = r.g.winner
    /\ last_move' = r.g.last_move
    /\ last_call' = caller
    /\ result' = r.ok

\* NetworkGame.handle_click: the click that completes a move of the local
\* player, and send_move
HandleClick ==
    /\ game_status = "playing"
    /\ ~opponent_disconnected
    /\ local_color = turn
    /\ \E move \in Clicks(board) :
          /\ NetworkReturned(make_move(Game, <<move[1], move[2]>>, <<move[3], move[4]>>),
                             "handle_click")
          /\ outbox' = IF peer.connected
                       THEN Append(outbox, Message("opponent_move", <<move[1], move[2]>>,
                                                   <<move[3], move[4]>>))
                       ELSE outbox
    /\ UNCHANGED <<local_color, game_status, opponent_disconnected, peer, inbox,
                   aiVars, serverVars, menuVars>>

\* handle_click in the session of the other player
PeerClick ==
    /\ peer.connected
    /\ peer.game.turn = Opponent(local_color)
    /\ \E move \in Clicks(peer.game.board) :
          /\ peer' = [peer EXCEPT !.game = make_move(@, <<move[1], move[2]>>,
                                                     <<move[3], move[4]>>).g]
          /\ inbox' = Append(inbox, Message("opponent_move", <<move[1], move[2]>>,
                                            <<move[3], move[4]>>))
    /\ UNCHANGED <<local_color, game_status, opponent_disconnected, outbox,
                   gameVars, aiVars, last_call, result, serverVars, menuVars>>

\* NetworkGame._handle_network_message on the next message of the server
HandleNetworkMessage ==
    /\ inbox # <<>>
    /\ inbox' = Tail(inbox)
    /\ IF Head(inbox).type = "opponent_move"
       THEN /\ NetworkReturned(make_move(Game, Head(inbox).start, Head(inbox).end),
                               "_handle_network_message")
            /\ UNCHANGED <<game_status, opponent_disconnected>>
       ELSE /\ game_status' = IF Head(inbox).type = "game_start"
                              THEN "playing" ELSE game_status
            /\ opponent_disconnected' =
                  (opponent_disconnected \/ Head(inbox).type = "opponent_disconnected")
            /\ UNCHANGED <<gameVars, last_call, result>>
    /\ UNCHANGED <<local_color, peer, outbox, aiVars, serverVars, menuVars>>

\* _handle_network_message in the session of the other player
PeerReceives ==
    /\ peer.connected
    /\ outbox # <<>>
    /\ outbox' = Tail(outbox)
    /\ peer' = [peer EXCEPT !.game = make_move(@, Head(outbox).start, Head(outbox).end).g]
    /\ UNCHANGED <<local_color, game_status, opponent_disconnected, inbox,
                   gameVars, aiVars, last_call, result, serverVars, menuVars>>

\* the other player closes the session: _cleanup_client frees the slot and
\* tells the local player
PeerLeaves ==
    /\ peer.connected
    /\ peer' = [peer EXCEPT !.connected = FALSE]
    /\ outbox' = <<>>
    /\ inbox' = Append(inbox, Message("opponent_disconnected", <<>>, <<>>))
    /\ UNCHANGED <<local_color, game_status, opponent_disconnected,
                   gameVars, aiVars, last_call, result, serverVars, menuVars>>

\* a new client is assigned the free slot of the game: _handle_client sends
\* game_start to both players
PeerJoins ==
    /\ ~peer.connected
    /\ peer.joined < MaxJoins
    /\ peer' = [connected |-> TRUE, game |-> NewGame, joined |-> peer.joined + 1]
    /\ inbox' = Append(inbox, Message("game_start", <<>>, <<>>))
    /\ UNCHANGED <<local_color, game_status, opponent_disconnected, outbox,
                   gameVars, aiVars, last_call, result, serverVars, menuVars>>

NextNetwork ==
    \/ HandleClick
    \/ PeerClick
    \/ HandleNetworkMessage
    \/ PeerReceives
    \/ PeerLeaves
    \/ PeerJoins

SpecNetwork == InitNetwork /\ [][NextNetwork]_vars

\* ------------------------------------------------------------------------
\* fixed_menu.py: MenuSystem, a single-player game at the level Easy.  The
\* frame loop runs _handle_game on the main thread; each AI turn starts a
\* thread of _ai_calculate_move, which shares ai_move and ai_thinking with
\* the frame loop without a lock.  A thread reads the board when its search
\* runs, and the writes of its two assignments are steps of their own.  The
\* player clicks the moves of HumanClicks, which keep a game within the
\* plies get_move answers without a search, and may leave the game for the
\* menu and start another.
\* ------------------------------------------------------------------------
HumanClicks == { <<6, 0, 5, 0>> }

\* the games the player starts
MaxGames == 2

\* the position of the game on the screen
Position == [game |-> started, board |-> board]

\* threading.Thread(target=self._ai_calculate_move), started on position;
\* current: self.ai_thread is this thread
Thread(position) ==
    [pc |-> "search", move |-> <<>>, position |-> position, current |-> TRUE]

\* the threads once self.ai_thread is another thread, or None
Dropped(s) == [i \in 1..Len(s) |-> [s[i] EXCEPT !.current = FALSE]]

\* the threads without the i-th, which has ended
Ended(s, i) == SubSeq(s, 1, i - 1) \o SubSeq(s, i + 1, Len(s))

\* _start_game for the mode singleplayer
InitMenu ==
    /\ NewServer
    /\ NoNetwork
    /\ state = "game"
    /\ paused = FALSE
    /\ ai_thinking = FALSE
    /\ threads = <<>>
    /\ searched = [game |-> 0, board |-> NewBoard]
    /\ started = 1
    /\ frame = "events"
    /\ board = NewBoard
    /\ turn = WHITE
    /\ game_over = FALSE
    /\ winner = "None"
    /\ last_move = <<>>
    /\ ai = ChessAI(BLACK, 1)
    /\ ai_move = <<>>
    /\ last_call = "init"
    /\ result = FALSE

\* the game after a call of make_move that returned r, made by caller
MenuReturned(r, caller) ==
    /\ board' = r.g.board
    /\ turn' = r.g.turn
    /\ game_over' = r.g.game_over
    /\ winner' = r.g.winner
    /\ last_move' = r.g.last_move
    /\ last_call' = caller
    /\ result' = r.ok

\* _process_events: the click that completes a move of the player
ProcessClick ==
    /\ frame = "events"
    /\ state = "game" /\ ~paused
    /\ ~game_over /\ ~ai_thinking
    /\ turn = WHITE
    /\ \E move \in HumanClicks :
          /\ IsPiece(board.board[move[1]][move[2]])
          /\ board.board[move[1]][move[2]].color = turn
          /\ InSeq(<<move[3], move[4]>>, get_valid_moves(board, move[1], move[2]))
          /\ MenuReturned(make_move(Game, <<move[1], move[2]>>, <<move[3], move[4]>>),
                          "_handle_click")
    /\ UNCHANGED <<aiVars, menuVars, serverVars, networkVars>>

\* _process_events: the key Escape
TogglePause ==
    /\ frame = "events"
    /\ state = "game"
    /\ paused' = ~paused
    /\ UNCHANGED <<state, ai_thinking, threads, searched, started, frame, gameVars,
                   aiVars, last_call, result, serverVars, networkVars>>

\* _cancel_ai_thread finds self.ai_thread alive
Alive == \E i \in 1..Len(threads) : threads[i].current

\* the pause menu, Back to Menu: _cancel_ai_thread, _cleanup_game
BackToMenu ==
    /\ frame = "events"
    /\ state = "game" /\ paused
    /\ state' = "main_menu"
    /\ paused' = FALSE
    /\ ai_thinking' = (ai_thinking /\ ~Alive)
    /\ ai_move' = IF Alive THEN <<>> ELSE ai_move
    /\ threads' = Dropped(threads)
    /\ UNCHANGED <<searched, started, frame, gameVars, ai, last_call, result,
                   serverVars, networkVars>>

\* the difficulty menu, Easy: _start_game
StartGame ==
    /\ frame = "events"
    /\ state = "main_menu"
    /\ started < MaxGames
    /\ started' = started + 1
    /\ state' = "game"
    /\ paused' = FALSE
    /\ ai_thinking' = FALSE
    /\ ai_move' = <<>>
    /\ threads' = Dropped(threads)
    /\ board' = NewBoard
    /\ turn' = WHITE
    /\ game_over' = FALSE
    /\ winner' = "None"
    /\ last_move' = <<>>
    /\ ai' = ChessAI(BLACK, 1)
    /\ last_call' = "_start_game"
    /\ UNCHANGED <<searched, frame, result, serverVars, networkVars>>

\* _handle_game starts a thread
Starts == turn = BLACK /\ ~game_over /\ ~ai_thinking

\* _handle_game up to the start of the thread of an AI turn: the end of the
\* game, or self.ai_thinking = True and self.ai_thread.start()
HandleGame ==
    /\ frame = "events"
    /\ state = "game" /\ ~paused
    /\ IF game_over
       THEN /\ state' = "game_over"
            /\ UNCHANGED <<ai_thinking, threads, frame>>
       ELSE /\ state' = state
            /\ frame' = "found"
            /\ ai_thinking' = (ai_thinking \/ Starts)
            /\ threads' = IF Starts THEN Append(Dropped(threads), Thread(Position))
                           ELSE threads
    /\ UNCHANGED <<paused, searched, started, gameVars, aiVars, last_call, result,
                   serverVars, networkVars>>

\* _handle_game from "Check if AI has found a move" on, which the threads
\* started may have reached before it
HandleGameFound ==
    /\ frame = "found"
    /\ frame' = "events"
    /\ IF ai_thinking /\ ai_move # <<>>
       THEN /\ MenuReturned(make_move(Game, ai_move[1], ai_move[2]), "_handle_game")
            /\ ai_thinking' = FALSE
            /\ ai_move' = <<>>
       ELSE UNCHANGED <<ai_thinking, gameVars, ai_move, last_call, result>>
    /\ UNCHANGED <<state, paused, threads, searched, started, ai, serverVars, networkVars>>

\* get_move answers within the first plies at the level Easy, without a
\* search
Quick(self, board_) == self.difficulty = 1 /\ board_.fullmove_counter <= 3

\* _ai_calculate_move: what the call of get_move returns
Calculated(self, board_, late_after) == get_move(self, board_, late_after)

\* _ai_calculate_move: move = self.game.black_player.get_move(self.game.board),
\* which raises when the game has been cleaned up
Calculate ==
    \E i \in 1..Len(threads) :
        /\ threads[i].pc = "search"
        /\ IF state = "main_menu"
           THEN /\ threads' = [threads EXCEPT ![i].pc = "store"]
                /\ ai' = ai
           ELSE /\ Quick(ai, board)
                /\ \E late_after \in LateChoices(ai, board) :
                      /\ threads' = [threads EXCEPT
                                        ![i].pc = "store",
                                        ![i].move = Calculated(ai, board, late_after).move]
                      /\ ai' = Calculated(ai, board, late_after).self
        /\ UNCHANGED <<state, paused, ai_thinking, searched, started, frame, gameVars,
                       ai_move, last_call, result, serverVars, networkVars>>

\* _ai_calculate_move: self.ai_move = move
StoreMove ==
    \E i \in 1..Len(threads) :
        /\ threads[i].pc = "store"
        /\ ai_move' = threads[i].move
        /\ searched' = threads[i].position
        /\ threads' = [threads EXCEPT ![i].pc = "finally"]
        /\ UNCHANGED <<state, paused, ai_thinking, started, frame, gameVars, ai, last_call,
                       result, serverVars, networkVars>>

\* _ai_calculate_move: finally: self.ai_thinking = False, and the thread ends
EndThread ==
    \E i \in 1..Len(threads) :
        /\ threads[i].pc = "finally"
        /\ ai_thinking' = FALSE
        /\ threads' = Ended(threads, i)
        /\ UNCHANGED <<state, paused, searched, started, frame, gameVars, aiVars, last_call,
                       result, serverVars, networkVars>>

NextMenu ==
    \/ ProcessClick
    \/ TogglePause
    \/ BackToMenu
    \/ StartGame
    \/ HandleGame
    \/ HandleGameFound
    \/ Calculate
    \/ StoreMove
    \/ EndThread

SpecMenu == InitMenu /\ [][NextMenu]_vars

\* what get_move may return: None, or a move
Replies == {<<>>} \cup {<<start, end>> : start \in Rows \X Rows, end \in Rows \X Rows}

\* the call of get_move of a thread returns: the steps of Calculate, whatever
\* the move
Returns ==
    \E i \in 1..Len(threads) :
        /\ threads[i].pc = "search"
        /\ state = "main_menu" \/ Quick(ai, board)
        /\ \E move \in Replies :
              threads' = [threads EXCEPT ![i].pc = "store", ![i].move = move]
        /\ UNCHANGED <<state, paused, ai_thinking, searched, started, frame, gameVars,
                       aiVars, last_call, result, serverVars, networkVars>>

\* the frame loop and the threads are scheduled fairly, and get_move
\* returns within its time limit; the player is under no obligation
FairMenu ==
    /\ WF_vars(HandleGame)
    /\ WF_vars(HandleGameFound)
    /\ WF_vars(Returns)
    /\ WF_vars(StoreMove)
    /\ WF_vars(EndThread)

SpecMenuFair == SpecMenu /\ FairMenu

\* ------------------------------------------------------------------------
\* Properties
\* ------------------------------------------------------------------------
Sides == {"kingside", "queenside"}

\* the squares of the grid that hold a king of the colour
KingSquares(b, color) ==
    {sq \in Rows \X Rows : b.board[sq[1]][sq[2]].kind = "K" /\ b.board[sq[1]][sq[2]].color = color}

\* the king of the colour, found on the grid, stands on an attacked square
KingAttacked(b, color) ==
    \E sq \in KingSquares(b, color) : is_square_under_attack(b, sq[1], sq[2], color)

\* the position after get_valid_moves' destination is applied
Applied(b, row, col, move) == move_piece(b, row, col, move[1], move[2]).b

\* C1: in every reachable position and for every piece on it (of either
\* colour), no destination returned by get_valid_moves leaves the mover's
\* own king in check once the move is applied: neither by is_in_check nor
\* with the king located on the grid.
C1_NoSelfCheck ==
    \A row \in Rows, col \in Rows :
        IsPiece(board.board[row][col]) =>
            \A move \in Range(get_valid_moves(board, row, col)) :
                /\ ~is_in_check(Applied(board, row, col, move), board.board[row][col].color)
                /\ ~KingAttacked(Applied(board, row, col, move), board.board[row][col].color)

\* C1 witness: a position in which the filter has discarded a candidate of
\* a piece that keeps other destinations.
C1_Witness ==
    \E row \in Rows, col \in Rows :
        /\ IsPiece(board.board[row][col])
        /\ board.board[row][col].color = turn
        /\ Len(get_valid_moves(board, row, col)) > 0
        /\ Len(get_valid_moves(board, row, col))
              < Len(get_potential_moves(board.board[row][col], board))

\* C4: after any sequence of legal moves, king_positions[color] is the
\* square of the grid cell that holds the king of that colour.
C4_KingCache ==
    \A color \in Colors :
        /\ KingSquares(board, color) # {}
        /\ \A sq \in KingSquares(board, color) : board.king_positions[color] = sq

\* C4 witness: both kings have left their original squares (by castling).
C4_Witness ==
    /\ board.king_positions[WHITE] = <<7, 6>>
    /\ board.king_positions[BLACK] = <<0, 6>>
    /\ board.board[7][6].kind = "K"

\* C5: every position reached through make_move holds exactly one white
\* king and exactly one black king.
C5_OneKingEach ==
    \A color \in Colors : Cardinality(KingSquares(board, color)) = 1

\* C5 witness: a game played to checkmate, with pieces captured on the way.
C5_Witness ==
    /\ game_over
    /\ winner = WHITE
    /\ Len(board.captured_pieces[WHITE]) > 0
    /\ is_in_check(board, BLACK)

\* C6: every piece standing on grid cell (r, c) has row = r and col = c.
C6_PieceSquare ==
    \A r \in Rows, c \in Rows :
        IsPiece(board.board[r][c]) => board.board[r][c].row = r /\ board.board[r][c].col = c

\* the history holds a move of the given type, by the shape of the move
Castled == \E i \in 1..Len(board.move_history) :
               /\ board.move_history[i].piece.kind = "K"
               /\ Abs(board.move_history[i].start[2] - board.move_history[i].end[2]) = 2

Promoted == \E i \in 1..Len(board.move_history) :
                /\ board.move_history[i].piece.kind = "P"
                /\ board.move_history[i].end[1] \in {0, 7}

CapturedEnPassant ==
    \E i \in 1..Len(board.move_history) :
        /\ board.move_history[i].piece.kind = "P"
        /\ board.move_history[i].start[2] # board.move_history[i].end[2]
        /\ board.move_history[i].captured.kind = "P"
        /\ board.move_history[i].captured.row = board.move_history[i].start[1]

\* C6 witness: a castling move has relocated a rook; an en passant capture
\* and a promotion are reached as well.
C6_Witness == Castled /\ board.board[7][5].kind = "R"

C6_WitnessEnPassant == CapturedEnPassant

C6_WitnessPromotion == Promoted

\* C7 (state part): a castling right is true only if that colour's king
\* stands unmoved on its original square and a never-moved rook of that
\* colour stands on that side's original corner.
C7_RightsJustified ==
    \A color \in Colors, side \in Sides :
        board.castling_rights[color][side] =>
            LET row == IF color = WHITE THEN 7 ELSE 0
                king == board.board[row][4]
                rook == board.board[row][IF side = "kingside" THEN 7 ELSE 0]
            IN  /\ king.kind = "K" /\ king.color = color /\ ~king.has_moved
                /\ rook.kind = "R" /\ rook.color = color /\ ~rook.has_moved

\* C7 (step part): a right that is false stays false.
C7_NeverRegained ==
    \A color \in Colors, side \in Sides :
        ~board.castling_rights[color][side] => ~board'.castling_rights[color][side]

\* C7: in every reachable position a castling right is true only with the
\* unmoved king and the never-moved rook of that side on their original
\* squares, and a right that has become false never becomes true again.
C7_CastlingRights == []C7_RightsJustified /\ [][C7_NeverRegained]_vars

\* C7 witness: black has lost the kingside right to the capture of the
\* rook on its corner, the king still unmoved and the other right intact.
C7_Witness ==
    /\ ~board.castling_rights[BLACK].kingside
    /\ board.castling_rights[BLACK].queenside
    /\ board.board[0][4].kind = "K"
    /\ ~board.board[0][4].has_moved
    /\ board.board[0][7].color = WHITE

\* a successful move, by its start and end squares and the piece that stood
\* on the start square before it
C8_Step ==
    (last_call' = "make_move" /\ result' = TRUE) =>
        LET start == last_move'[1]
            end == last_move'[2]
            piece == board.board[start[1]][start[2]]
            double == piece.kind = "P" /\ Abs(start[1] - end[1]) = 2
        IN  /\ (board'.en_passant_target # <<>>) <=> double
            /\ double => board'.en_passant_target = <<(start[1] + end[1]) \div 2, start[2]>>
            /\ double => board'.board[board'.en_passant_target[1]]
                                      [board'.en_passant_target[2]] = NoPiece

\* C8: after every successful move the en passant target is non-null
\* exactly if the move was a pawn advancing two rows, and then it is the
\* (empty) square the pawn passed over; so any move that is not a two-row
\* pawn advance leaves the target null and no target outlives one ply.
C8_EnPassantTarget == [][C8_Step]_vars

\* C8 witness: the move before the last set a target and the last move,
\* not a two-row pawn advance, cleared it.
C8_Witness ==
    /\ Len(board.move_history) >= 2
    /\ board.move_history[Len(board.move_history) - 1].en_passant # <<>>
    /\ board.en_passant_target = <<>>

\* every direct call of move_piece is made on an empty start square
C9_Step == last_call' = "move_piece" => (result' = FALSE /\ board' = board)

\* C9: Board.move_piece called with a start square that holds no piece
\* returns False and leaves the whole position unchanged (grid, captured
\* lists, king cache, castling rights, en passant target, clocks, history).
C9_EmptyStart == [][C9_Step]_vars

\* C9 witness: such a call was made in the middle of a game.
C9_Witness ==
    /\ last_call = "move_piece"
    /\ result = FALSE
    /\ Len(board.move_history) >= 4
    /\ board.en_passant_target # <<>>

\* the requests make_move has to reject
Rejectable(start, end) ==
    \/ ~is_valid_position(start[1], start[2])
    \/ ~is_valid_position(end[1], end[2])
    \/ ~IsPiece(board.board[start[1]][start[2]])
    \/ board.board[start[1]][start[2]].color # turn
    \/ ~InSeq(end, get_valid_moves(board, start[1], start[2]))

C10_Rejected ==
    \A start \in ProbeStarts, end \in ProbeEnds :
        Rejectable(start, end) => ~make_move(Game, start, end).ok

C10_Step == (last_call' = "make_move" /\ result' = FALSE) => UNCHANGED gameVars

\* C10: a request with an out-of-range square, no piece at the source, a
\* piece not of the colour to move, or a destination not among the legal
\* moves of the source is answered with false, and a request answered with
\* false leaves board, turn, last_move, game_over and winner unchanged.
C10_RejectedRequests == []C10_Rejected /\ [][C10_Step]_vars

\* C10 witness: a request was rejected in a game in progress, the side to
\* move having a legal move from the requested source.
C10_Witness ==
    /\ last_call = "make_move"
    /\ result = FALSE
    /\ Len(board.move_history) >= 3
    /\ \E start \in OnBoard(ProbeStarts) :
          /\ board.board[start[1]][start[2]].color = turn
          /\ get_valid_moves(board, start[1], start[2]) # <<>>

\* the legal moves of a colour, by Board.get_valid_moves alone
LegalMoves(b, color) ==
    UNION {{<<sq, end>> : end \in Range(get_valid_moves(b, sq[1], sq[2]))} :
              sq \in {s \in Rows \X Rows : /\ IsPiece(b.board[s[1]][s[2]])
                                            /\ b.board[s[1]][s[2]].color = color}}

\* C2: get_move returns None exactly when its colour has no legal move on
\* the board it was given, and otherwise a (start, end) pair that is a legal
\* move of a piece of its colour on that board.
C2_Step ==
    last_call' = "get_move" =>
        IF LegalMoves(board, ai.color) = {} THEN ai_move' = <<>>
        ELSE ai_move' \in LegalMoves(board, ai.color)

C2_WitnessEarlyStop ==
    /\ last_call = "get_move"
    /\ ai_move # <<>>
    /\ ~FastPath(ai, board)
    /\ \E h \in DOMAIN ai.transposition_table : ai.transposition_table[h].score > 5000

\* get_move returned the only legal move
C2_WitnessSingle ==
    /\ last_call = "get_move"
    /\ ai_move # <<>>
    /\ Cardinality(LegalMoves(board, ai.color)) = 1

\* get_move returned None
C2_WitnessNone == last_call = "get_move" /\ ai_move = <<>>

\* C3: get_move leaves the board it was given as it was, on every path
\* (single move, opening shortcut, full search, early stop, no move).
C3_Step == last_call' = "get_move" => board' = board

Moved == last_call' = "make_move" /\ result' = TRUE

\* the piece that made it, as it stood before the move
Mover == board.board[last_move'[1][1]][last_move'[1][2]]

\* C11: a legal castling move puts the king two columns toward the rook,
\* moves that side's rook from its corner to the square the king crossed
\* (column 7 to 5 kingside, column 0 to 3 queenside) with has_moved set,
\* empties the corner, clears both castling rights of the mover and leaves
\* the opponent's rights as they were.
C11_Step ==
    (Moved /\ Mover.kind = "K" /\ Abs(last_move'[1][2] - last_move'[2][2]) = 2) =>
        LET row == last_move'[1][1]
            kingside == last_move'[2][2] > last_move'[1][2]
            corner == IF kingside THEN 7 ELSE 0
            crossed == IF kingside THEN 5 ELSE 3
            king_col == IF kingside THEN 6 ELSE 2
        IN  /\ last_move'[1][2] = 4
            /\ last_move'[2] = <<row, king_col>>
            /\ board'.board[row][king_col] =
                   [Mover EXCEPT !.col = king_col, !.has_moved = TRUE]
            /\ board'.board[row][4] = NoPiece
            /\ board.board[row][corner].kind = "R"
            /\ board.board[row][corner].color = Mover.color
            /\ board'.board[row][crossed] =
                   [board.board[row][corner] EXCEPT !.col = crossed, !.has_moved = TRUE]
            /\ board'.board[row][corner] = NoPiece
            /\ board'.castling_rights[Mover.color] =
                   [kingside |-> FALSE, queenside |-> FALSE]
            /\ board'.castling_rights[Opponent(Mover.color)] =
                   board.castling_rights[Opponent(Mover.color)]

C11_Castling == [][C11_Step]_vars

\* C11 witness: White has just castled queenside while Black still holds
\* both rights.
C11_Witness ==
    /\ last_call = "make_move"
    /\ result
    /\ last_move = << <<7, 4>>, <<7, 2>> >>
    /\ board.board[7][3].kind = "R"
    /\ board.castling_rights[BLACK].kingside
    /\ board.castling_rights[BLACK].queenside

\* C12: a legal en passant capture removes the opposing pawn that has just
\* advanced two squares (on the mover's start row, in the destination
\* column), leaves the mover's pawn on the destination square, which was
\* empty, and appends exactly that pawn to the mover's captured list.
C12_Step ==
    (/\ Moved
     /\ Mover.kind = "P"
     /\ last_move'[1][2] # last_move'[2][2]
     /\ ~IsPiece(board.board[last_move'[2][1]][last_move'[2][2]])) =>
        LET start == last_move'[1]
            end == last_move'[2]
            passed == board.board[start[1]][end[2]]
            last == board.move_history[Len(board.move_history)]
        IN  /\ passed.kind = "P"
            /\ passed.color = Opponent(Mover.color)
            /\ last.end = <<start[1], end[2]>>
            /\ Abs(last.start[1] - last.end[1]) = 2
            /\ board'.board[start[1]][end[2]] = NoPiece
            /\ board'.board[start[1]][start[2]] = NoPiece
            /\ board'.board[end[1]][end[2]] =
                   [Mover EXCEPT !.row = end[1], !.col = end[2], !.has_moved = TRUE]
            /\ board'.captured_pieces[Mover.color] =
                   Append(board.captured_pieces[Mover.color], passed)
            /\ board'.captured_pieces[Opponent(Mover.color)] =
                   board.captured_pieces[Opponent(Mover.color)]

C12_EnPassant == [][C12_Step]_vars

\* C12 witness: Black has just captured en passant.
C12_Witness ==
    /\ last_call = "make_move"
    /\ result
    /\ Len(board.move_history) > 0
    /\ LET last == board.move_history[Len(board.move_history)]
       IN  /\ last.piece = [kind |-> "P", color |-> BLACK]
           /\ last.start[2] # last.end[2]
           /\ last.captured.kind = "P"
           /\ last.captured.row = last.start[1]
           /\ Len(board.captured_pieces[BLACK]) = 1

\* no pawn stands on row 0 or row 7
NoPawnOnLastRanks ==
    \A row \in {0, 7}, col \in Rows : board.board[row][col].kind # "P"

\* C13 (step part): a pawn move that ends on the farthest rank leaves a
\* queen of the pawn's colour on the destination square
C13_Step ==
    (/\ Moved
     /\ Mover.kind = "P"
     /\ last_move'[2][1] = (IF Mover.color = WHITE THEN 0 ELSE 7)) =>
        /\ board'.board[last_move'[2][1]][last_move'[2][2]].kind = "Q"
        /\ board'.board[last_move'[2][1]][last_move'[2][2]].color = Mover.color

\* C13: whenever a pawn move ends on the farthest rank (row 0 for White,
\* row 7 for Black), with or without a capture, the destination square
\* then holds a queen of the pawn's colour and no pawn; so no pawn ever
\* stands on row 0 or row 7.
C13_Promotion == []NoPawnOnLastRanks /\ [][C13_Step]_vars

\* C13 witness: both sides have promoted, White with a capture and Black
\* without one.
C13_Witness ==
    /\ \E i \in 1..Len(board.move_history) :
          /\ board.move_history[i].piece = [kind |-> "P", color |-> WHITE]
          /\ board.move_history[i].end[1] = 0
          /\ IsPiece(board.move_history[i].captured)
    /\ \E i \in 1..Len(board.move_history) :
          /\ board.move_history[i].piece = [kind |-> "P", color |-> BLACK]
          /\ board.move_history[i].end[1] = 7
          /\ ~IsPiece(board.move_history[i].captured)
    /\ board.board[7][6].kind = "Q"

\* C14: in every reachable position and for each colour, is_checkmate is
\* true exactly when the colour is in check and has no legal move,
\* is_stalemate exactly when it is not in check and has no legal move, and
\* the two are never both true.
C14_MateStalemate ==
    \A color \in Colors :
        /\ is_checkmate(board, color)
               <=> (KingAttacked(board, color) /\ LegalMoves(board, color) = {})
        /\ is_stalemate(board, color)
               <=> (~KingAttacked(board, color) /\ LegalMoves(board, color) = {})
        /\ ~(is_checkmate(board, color) /\ is_stalemate(board, color))

\* C14 witness: the side to move is stalemated.
C14_Witness ==
    /\ is_stalemate(board, turn)
    /\ ~KingAttacked(board, turn)
    /\ LegalMoves(board, turn) = {}

\* a second case of C14: the side to move is checkmated
C14_WitnessMate ==
    /\ is_checkmate(board, turn)
    /\ KingAttacked(board, turn)
    /\ LegalMoves(board, turn) = {}

\* the squares of the grid that hold a piece other than a king
ExtraSquares(b) ==
    {sq \in Rows \X Rows : IsPiece(b.board[sq[1]][sq[2]]) /\ b.board[sq[1]][sq[2]].kind # "K"}

\* bare kings, kings and one bishop or knight, or kings and exactly two
\* bishops on squares of the same parity
InsufficientMaterial(b) ==
    \/ ExtraSquares(b) = {}
    \/ /\ Cardinality(ExtraSquares(b)) = 1
       /\ \A sq \in ExtraSquares(b) : b.board[sq[1]][sq[2]].kind \in {"B", "N"}
    \/ /\ Cardinality(ExtraSquares(b)) = 2
       /\ \A sq \in ExtraSquares(b) : b.board[sq[1]][sq[2]].kind = "B"
       /\ \A sq1 \in ExtraSquares(b), sq2 \in ExtraSquares(b) :
              (sq1[1] + sq1[2]) % 2 = (sq2[1] + sq2[2]) % 2

\* C15: is_draw_by_insufficient_material is true exactly for bare kings,
\* for kings and a single bishop or knight, and for kings and exactly two
\* bishops on squares of the same parity; it is false for two bishops on
\* squares of opposite parity and for every other combination.
C15_InsufficientMaterial ==
    last_call = "is_draw_by_insufficient_material" =>
        (result <=> InsufficientMaterial(board))

\* C15 witness: the call has answered true for two bishops, one of each
\* colour, on squares of the same parity.
C15_Witness ==
    /\ last_call = "is_draw_by_insufficient_material"
    /\ result
    /\ Cardinality(ExtraSquares(board)) = 2
    /\ \E sq1 \in ExtraSquares(board), sq2 \in ExtraSquares(board) :
          /\ board.board[sq1[1]][sq1[2]].color = WHITE
          /\ board.board[sq2[1]][sq2[2]].color = BLACK

\* a second case of C15: the call has answered false for two bishops on
\* squares of opposite parity
C15_WitnessOpposite ==
    /\ last_call = "is_draw_by_insufficient_material"
    /\ ~result
    /\ Cardinality(ExtraSquares(board)) = 2
    /\ \A sq \in ExtraSquares(board) : board.board[sq[1]][sq[2]].kind = "B"

\* a record of a move that was neither a pawn move nor a capture
Quiet(record) == record.piece.kind # "P" /\ ~IsPiece(record.captured)

\* the number of plies since the last pawn move or capture
RECURSIVE QuietRun(_, _)
QuietRun(history, n) ==
    IF n = 0 \/ ~Quiet(history[n]) THEN 0 ELSE 1 + QuietRun(history, n - 1)

\* C16 (step part): a pawn move or a capture, en passant included, resets
\* the clock; any other successful move adds one
C16_Step ==
    Moved =>
        board'.halfmove_clock =
            IF Mover.kind = "P" \/ PieceCount(board') < PieceCount(board)
            THEN 0
            ELSE board.halfmove_clock + 1

\* C16 (state part): the clock counts the plies since the last pawn move or
\* capture, and the fifty-move test answers accordingly
C16_Clock ==
    /\ board.halfmove_clock = QuietRun(board.move_history, Len(board.move_history))
    /\ is_draw_by_fifty_move_rule(board)
           <=> QuietRun(board.move_history, Len(board.move_history)) >= 100

\* C16: the halfmove clock is reset to 0 by every pawn move and every
\* capture (en passant included) and incremented by exactly 1 by every
\* other successful move, so is_draw_by_fifty_move_rule is true exactly
\* when the last 100 or more plies contained no pawn move and no capture.
C16_FiftyMove == []C16_Clock /\ [][C16_Step]_vars

\* C16 witness: a hundred plies without pawn move or capture have been
\* played and the fifty-move test is true.
C16_Witness ==
    /\ last_call = "make_move"
    /\ result
    /\ QuietRun(board.move_history, Len(board.move_history)) = 100
    /\ is_draw_by_fifty_move_rule(board)

\* a second case of C16: a capture by a piece has reset a clock that stood
\* at 2, after the fifty-move test had been true
C16_WitnessReset ==
    /\ last_call = "make_move"
    /\ result
    /\ Len(board.move_history) > 100
    /\ board.move_history[Len(board.move_history)].piece.kind = "N"
    /\ IsPiece(board.move_history[Len(board.move_history)].captured)
    /\ board.halfmove_clock = 0
    /\ ~is_draw_by_fifty_move_rule(board)

\* the fields of the i-th record other than the castling snapshot are the
\* same before and after the step
RecordKept(i) ==
    /\ board'.move_history[i].start = board.move_history[i].start
    /\ board'.move_history[i].end = board.move_history[i].end
    /\ board'.move_history[i].captured = board.move_history[i].captured
    /\ board'.move_history[i].en_passant = board.move_history[i].en_passant
    /\ board'.move_history[i].halfmove = board.move_history[i].halfmove
    /\ board'.move_history[i].fullmove = board.move_history[i].fullmove

\* the castling snapshot read from the i-th record is the same before and
\* after the step
SnapshotKept(i) ==
    \A color \in Colors, side \in Sides :
        ReadCastling(board', board'.move_history[i], color, side)
            = ReadCastling(board, board.move_history[i], color, side)

\* every successful move appends exactly one record, and the other fields
\* of the old records stay as they were
C17_AppendOnly ==
    [][/\ Len(board'.move_history) =
              Len(board.move_history) + (IF Moved THEN 1 ELSE 0)
       /\ \A i \in 1..Len(board.move_history) : RecordKept(i)]_vars

\* C17: every successful move_piece appends exactly one record to
\* move_history, and a record is never changed afterwards: its start, end,
\* captured piece, en passant target, castling-rights snapshot and
\* halfmove/fullmove values read the same after any later moves.
C17_Step ==
    /\ Len(board'.move_history) =
           Len(board.move_history) + (IF Moved THEN 1 ELSE 0)
    /\ \A i \in 1..Len(board.move_history) : RecordKept(i) /\ SnapshotKept(i)

C17_HistoryImmutable == [][C17_Step]_vars

\* the table without the entry of the position
Without(self, board_hash) ==
    [self EXCEPT !.transposition_table =
        [h \in DOMAIN self.transposition_table \ {board_hash} |->
            self.transposition_table[h]]]

\* C18: _minimax returns a stored score without searching only when the
\* stored entry's depth is at least the requested depth; an entry stored
\* at a smaller depth is never reused: the position is searched as if the
\* entry were absent and the entry is replaced at the requested depth.
C18_Step ==
    last_call' = "_minimax" =>
        LET board_hash == _get_board_hash(board)
            table == ai.transposition_table
        IN  IF board_hash \in DOMAIN table /\ table[board_hash].depth >= result'.depth
            THEN /\ result'.score = table[board_hash].score
                 /\ ai' = ai
            ELSE /\ ai'.transposition_table[board_hash] =
                        [score |-> result'.score, depth |-> result'.depth]
                 /\ result'.score =
                        _minimax(Without(ai, board_hash), board, result'.depth,
                                 -Inf, Inf, result'.is_maximizing).score

C18_TableDepth == [][C18_Step]_vars

\* C18 witness: a call has found an entry of smaller depth than it asked
\* for, with another score than the one it returned and stored.
C18_Witness ==
    /\ last_call = "_minimax"
    /\ \E entry \in result.found :
          /\ entry.depth < result.depth
          /\ entry.score # result.score
    /\ Found(ai, board) = {[score |-> result.score, depth |-> result.depth]}

\* a second case of C18: a call has returned the score of an entry of
\* greater depth than it asked for
C18_WitnessReuse ==
    /\ last_call = "_minimax"
    /\ \E entry \in result.found :
          /\ entry.depth > result.depth
          /\ entry.score = result.score
          /\ entry.score # _evaluate_board(ai, board)

Reverse(s) == [i \in 1..Len(s) |-> s[Len(s) + 1 - i]]

\* the best score of the root loop of get_move on a new ChessAI when the
\* candidates are tried in the order cands, the time limit never reached
BestScoreIn(self, board_, cands) ==
    RootLoop(ChessAI(self.color, self.difficulty), board_, cands, 1, -Inf, <<>>, -Inf,
             DynamicDepth(self, Len(cands)), Len(cands) + 1).best_score

\* C19: move ordering does not change the search value: for the same
\* position, depth and initially empty transposition table, the best score
\* get_move arrives at is the same whether the candidates are explored in
\* the heuristic order or in another order (here: the order of the dict of
\* valid moves, and the heuristic order reversed).
C19_Step ==
    (/\ last_call' = "get_move"
     /\ ~FastPath(ai, board)
     /\ result'.late_after > TotalMoves(board, ai.color)) =>
        /\ result'.score =
               BestScoreIn(ai, board, Candidates(_get_all_valid_moves(board, ai.color)))
        /\ result'.score =
               BestScoreIn(ai, board,
                           Reverse(Candidates(_order_moves(
                               board, _get_all_valid_moves(board, ai.color)))))

C19_OrderIndependent == [][C19_Step]_vars

\* C20: when get_move fails at top level while legal moves exist, it falls
\* back to a uniformly chosen legal move: the result is a legal move of
\* the AI's colour, never None, and any of the legal moves can be the one
\* returned.
C20_Step ==
    (last_call' = "get_move_failed" /\ LegalMoves(board, ai.color) # {}) =>
        /\ ai_move' # <<>>
        /\ ai_move' \in LegalMoves(board, ai.color)
        /\ FailureOutcomes(ai, board) = LegalMoves(board, ai.color)

C20_Fallback == [][C20_Step]_vars

\* the part of C20 that holds when the exception comes after valid_moves
\* was assigned: the result is a legal move of the AI's colour, namely the
\* first move of the first piece in scan order
C20_FirstMove ==
    [][(last_call' = "get_move_failed" /\ ai_move' # <<>>) =>
          /\ ai_move' \in LegalMoves(board, ai.color)
          /\ ai_move' = Candidates(_get_all_valid_moves(board, ai.color))[1]]_vars

\* the scores _minimax returns for the root candidates i..k in the loop of
\* get_move, with the table and alpha carried from one to the next
RECURSIVE RootScores(_, _, _, _, _, _, _)

RootScoresFrom(r, board_, cands, i, k, alpha, depth) ==
    <<r.score>> \o RootScores(r.self, board_, cands, i + 1, k, Max(alpha, r.score), depth)

RootScores(self, board_, cands, i, k, alpha, depth) ==
    IF i > k THEN <<>>
    ELSE RootScoresFrom(
             _minimax(self, _make_temp_move(board_, cands[i][1], cands[i][2]).temp_board,
                      depth - 1, alpha, Inf, FALSE),
             board_, cands, i, k, alpha, depth)

\* the move is a highest-scoring one among the candidates scored
BestOf(move, cands, scores) ==
    \E j \in 1..Len(scores) :
        /\ cands[j] = move
        /\ \A l \in 1..Len(scores) : scores[l] <= scores[j]

\* the candidates of the root loop, in its order
RootCands(self, board_) ==
    Candidates(_order_moves(board_, _get_all_valid_moves(board_, self.color)))

\* C21: in get_move's root loop, exceeding the time limit ends the search
\* only after at least one candidate has been evaluated, and the move then
\* returned is the highest-scoring candidate among those evaluated so far;
\* the search is never stopped by the time limit with no best move known.
C21_Step ==
    (/\ last_call' = "get_move"
     /\ ~FastPath(ai, board)
     /\ result'.late_after <= TotalMoves(board, ai.color)) =>
        /\ ai_move' # <<>>
        /\ \/ result'.score > 5000
           \/ BestOf(ai_move', RootCands(ai, board),
                     RootScores(ai, board, RootCands(ai, board), 1,
                                Max(result'.late_after, 1), -Inf,
                                DynamicDepth(ai, TotalMoves(board, ai.color))))

C21_TimeLimit == [][C21_Step]_vars

\* C21 witness: the limit was found exceeded after the second root move,
\* the second scored higher than the first and was returned, and moves were
\* left untried.
C21_Witness ==
    /\ last_call = "get_move"
    /\ result.late_after = 2
    /\ TotalMoves(board, ai.color) > 2
    /\ ai_move = RootCands(ChessAI(ai.color, ai.difficulty), board)[2]

\* a second case of C21: the limit was exceeded before the first root move
\* was tried, and the first root move was returned
C21_WitnessAtOnce ==
    /\ last_call = "get_move"
    /\ result.late_after = 0
    /\ TotalMoves(board, ai.color) > 1
    /\ ai_move = RootCands(ChessAI(ai.color, ai.difficulty), board)[1]

\* a new Board given the grid, the king squares, the castling rights and
\* the en passant target of b: clocks, captured lists and history are those
\* of a new Board
Reconstructed(b) ==
    [NewBoard EXCEPT !.board = b.board,
                     !.king_positions = b.king_positions,
                     !.castling_rights = b.castling_rights,
                     !.en_passant_target = b.en_passant_target]

\* C23: legal-move generation depends only on the grid and the position
\* metadata: the position reconstructed from the grid, king squares,
\* castling rights and en passant target of a reachable position yields,
\* for every square, the same get_valid_moves result as the original,
\* whatever the clocks, the captured lists and the history.
C23_MovesFromPosition ==
    \A row \in Rows, col \in Rows :
        get_valid_moves(Reconstructed(board), row, col) = get_valid_moves(board, row, col)

\* C23 witness: a position with a history, captures and an en passant
\* target, in which a pawn has the en passant capture among its moves.
C23_Witness ==
    /\ board.en_passant_target # <<>>
    /\ Len(board.move_history) > 4
    /\ Len(board.captured_pieces[WHITE]) > 0
    /\ Reconstructed(board) # board
    /\ \E row \in Rows, col \in Rows :
          /\ board.board[row][col].kind = "P"
          /\ InSeq(board.en_passant_target, get_valid_moves(board, row, col))

\* the king of the colour as it stands on its cached square
KingOf(b, color) == b.board[b.king_positions[color][1]][b.king_positions[color][2]]

\* King.get_potential_moves offers the square offset columns from the king
Offers(b, color, offset) ==
    InSeq(<<KingOf(b, color).row, KingOf(b, color).col + offset>>,
          King_get_potential_moves(KingOf(b, color), b))

\* the conditions of castling toward the rook on the corner column, over
\* the squares between (empty) and the squares crossed and landed on (safe)
MayCastle(b, color, side, between, path) ==
    /\ ~KingOf(b, color).has_moved
    /\ ~KingAttacked(b, color)
    /\ b.castling_rights[color][side]
    /\ \A col \in between : ~IsPiece(b.board[KingOf(b, color).row][col])
    /\ \A col \in path : ~is_square_under_attack(b, KingOf(b, color).row, col, color)

\* C24: King.get_potential_moves offers a castling destination (two
\* columns toward the rook) if and only if the king has not moved, is not
\* in check, the corresponding right is held, every square strictly
\* between king and rook is empty, and neither the square the king crosses
\* nor its landing square is attacked by the opponent.
C24_CastlingOffered ==
    \A color \in Colors :
        /\ Offers(board, color, 2) <=> MayCastle(board, color, "kingside", {5, 6}, {5, 6})
        /\ Offers(board, color, -2) <=> MayCastle(board, color, "queenside", {1, 2, 3}, {3, 2})

\* C24 witness: White's king is unmoved and not in check, holds the
\* kingside right, f1 and g1 are empty and g1 is safe, but f1 is attacked:
\* castling is not offered.
C24_Witness ==
    /\ ~KingOf(board, WHITE).has_moved
    /\ ~KingAttacked(board, WHITE)
    /\ board.castling_rights[WHITE].kingside
    /\ ~IsPiece(board.board[7][5]) /\ ~IsPiece(board.board[7][6])
    /\ is_square_under_attack(board, 7, 5, WHITE)
    /\ ~is_square_under_attack(board, 7, 6, WHITE)
    /\ ~Offers(board, WHITE, 2)

\* a second case of C24: castling is offered
C24_WitnessOffered == Offers(board, WHITE, -2)

\* a third case of C24: all is as for castling but the right, lost when the
\* rook left its corner and came back
C24_WitnessNoRight ==
    /\ ~KingOf(board, BLACK).has_moved
    /\ ~KingAttacked(board, BLACK)
    /\ ~board.castling_rights[BLACK].kingside
    /\ ~IsPiece(board.board[0][5]) /\ ~IsPiece(board.board[0][6])
    /\ board.board[0][7].kind = "R"
    /\ ~Offers(board, BLACK, 2)

\* a fourth case of C24: kingside castling is offered to Black
C24_WitnessKingside == Offers(board, BLACK, 2)

\* the position after a move of LegalMoves
After(b, m) == Applied(b, m[1][1], m[1][2], m[2])

\* the colour is checkmated: its king is attacked and it has no legal move
Mated(b, color) == KingAttacked(b, color) /\ LegalMoves(b, color) = {}

\* the colour, to move, has a move that checkmates
MateInOne(b, color) == \E m \in LegalMoves(b, color) : Mated(After(b, m), Opponent(color))

\* the opponent of the colour, to move, has replies, and each of them
\* leaves the colour a move that checkmates
ForcedMate(b, color) ==
    /\ LegalMoves(b, Opponent(color)) # {}
    /\ \A reply \in LegalMoves(b, Opponent(color)) : MateInOne(After(b, reply), color)

C22_Step ==
    (/\ last_call' = "_minimax"
     /\ result'.depth = 2
     /\ ~result'.is_maximizing
     /\ ForcedMate(board, ai.color)) => result'.score = 100000

\* C22: on a position where the AI has a forced mate in two, a search of
\* depth 3 gives the first move of the mate the score +100000: _minimax,
\* called as the root loop calls it (depth 2, the opponent to move) on the
\* position after that move, returns 100000.
C22_MateInTwo == [][C22_Step]_vars

\* the search of the position after Qxd6+ has returned
C22_Reached ==
    /\ last_call = "_minimax"
    /\ result.depth = 2
    /\ ~result.is_maximizing
    /\ ForcedMate(board, ai.color)

\* the move played at ply i has the squares of the move four plies before
SameAsFourBefore(b, i) ==
    /\ b.move_history[i].start = b.move_history[i - 4].start
    /\ b.move_history[i].end = b.move_history[i - 4].end

\* C25: is_draw_by_threefold_repetition returns true exactly when at least
\* 8 moves have been played and each of the last 4 moves has the start and
\* end squares of the move played 4 plies before it; with fewer than 8
\* moves in the history it is false.
C25_Repetition ==
    /\ is_draw_by_threefold_repetition(board) <=>
          /\ Len(board.move_history) >= 8
          /\ \A i \in (Len(board.move_history) - 3)..Len(board.move_history) :
                SameAsFourBefore(board, i)
    /\ Len(board.move_history) < 8 => ~is_draw_by_threefold_repetition(board)

\* C25 witness: the last four moves are those of four plies before and the
\* test answers true.
C25_Witness ==
    /\ Len(board.move_history) >= 8
    /\ is_draw_by_threefold_repetition(board)

\* a second case of C25: of the last four moves, some but not all are those
\* of four plies before, and the test answers false
C25_WitnessPartial ==
    /\ Len(board.move_history) >= 8
    /\ \E i \in (Len(board.move_history) - 3)..Len(board.move_history) :
          SameAsFourBefore(board, i)
    /\ ~is_draw_by_threefold_repetition(board)

\* a third case of C25: fewer than 8 moves, the last two of them those of
\* four plies before
C25_WitnessShort ==
    /\ Len(board.move_history) \in 6..7
    /\ \A i \in (Len(board.move_history) - 1)..Len(board.move_history) :
          SameAsFourBefore(board, i)
    /\ ~is_draw_by_threefold_repetition(board)

\* the kind _get_move_type gives a move of LegalMoves
TypeOf(b, m) ==
    _get_move_type(b, b.board[m[1][1]][m[1][2]], m[1][1], m[1][2], m[2][1], m[2][2])

MovedKind(b, m) == b.board[m[1][1]][m[1][2]].kind

\* a pawn ends on its far rank
ToFarRank(b, m) ==
    /\ MovedKind(b, m) = "P"
    /\ m[2][1] = (IF b.board[m[1][1]][m[1][2]].color = WHITE THEN 0 ELSE 7)

\* a pawn moves one column sideways onto an empty square that is the
\* stored en-passant target
OntoTarget(b, m) ==
    /\ MovedKind(b, m) = "P"
    /\ Abs(m[2][2] - m[1][2]) = 1
    /\ ~IsPiece(b.board[m[2][1]][m[2][2]])
    /\ b.en_passant_target = m[2]

\* a king moves by the number of columns
KingShift(b, m, columns) == MovedKind(b, m) = "K" /\ m[2][2] - m[1][2] = columns

Classified(b, m) ==
    /\ TypeOf(b, m) \in {"regular", "promotion", "en_passant",
                         "castling_kingside", "castling_queenside"}
    /\ TypeOf(b, m) = "promotion" <=> ToFarRank(b, m)
    /\ TypeOf(b, m) = "en_passant" <=> OntoTarget(b, m)
    /\ TypeOf(b, m) = "castling_kingside" <=> KingShift(b, m, 2)
    /\ TypeOf(b, m) = "castling_queenside" <=> KingShift(b, m, -2)
    /\ TypeOf(b, m) = "regular" <=>
          ~(\/ ToFarRank(b, m) \/ OntoTarget(b, m)
            \/ KingShift(b, m, 2) \/ KingShift(b, m, -2))
    /\ (MovedKind(b, m) = "K" /\ Abs(m[2][2] - m[1][2]) <= 1) =>
          TypeOf(b, m) = "regular"
    /\ (MovedKind(b, m) = "P" /\ IsPiece(b.board[m[2][1]][m[2][2]])) =>
          TypeOf(b, m) \in {"regular", "promotion"}

\* C26: every legal move is classified into exactly one kind, and
\* correctly: promotion iff a pawn ends on the far rank; en passant iff a
\* pawn moves one column sideways onto an empty square equal to the stored
\* en-passant target; kingside or queenside castling iff a king moves two
\* columns right or left; regular otherwise.  A king step or a pawn capture
\* of a piece is never classified as castling or en passant.
C26_MoveKinds ==
    \A color \in Colors : \A m \in LegalMoves(board, color) : Classified(board, m)

\* C26 witness: the side to move has an en-passant capture and a capture
\* of a piece by a pawn among its legal moves.
C26_Witness ==
    /\ \E m \in LegalMoves(board, turn) : TypeOf(board, m) = "en_passant"
    /\ \E m \in LegalMoves(board, turn) :
          /\ MovedKind(board, m) = "P"
          /\ IsPiece(board.board[m[2][1]][m[2][2]])

\* further cases of C26: legal moves of the other kinds
C26_WitnessPromotion ==
    \E m \in LegalMoves(board, turn) : TypeOf(board, m) = "promotion"

C26_WitnessCastling ==
    /\ \E m \in LegalMoves(board, turn) : TypeOf(board, m) = "castling_queenside"
    /\ \E m \in LegalMoves(board, turn) :
          MovedKind(board, m) = "K" /\ TypeOf(board, m) = "regular"

C26_WitnessKingside ==
    \E m \in LegalMoves(board, turn) : TypeOf(board, m) = "castling_kingside"

MaxOf(values) == CHOOSE v \in values : \A w \in values : w <= v

MinOf(values) == CHOOSE v \in values : \A w \in values : v <= w

\* the minimax value of the game tree under board_ to the depth, with
\* _minimax's terminal test and leaf evaluation, and neither pruning nor
\* table
RECURSIVE Plain(_, _, _, _)

Plain(self, board_, depth, is_maximizing) ==
    IF IsTerminal(self, board_, depth) THEN _evaluate_board(self, board_)
    ELSE IF is_maximizing
    THEN MaxOf({Plain(self, After(board_, m), depth - 1, FALSE) :
                   m \in LegalMoves(board_, self.color)})
    ELSE MinOf({Plain(self, After(board_, m), depth - 1, TRUE) :
                   m \in LegalMoves(board_, Opponent(self.color))})

C27_Step ==
    (/\ last_call' = "get_move"
     /\ ~FastPath(ai, board)
     /\ result'.late_after > TotalMoves(board, ai.color)
     /\ result'.score <= 5000) =>
        result'.score = Plain(ai, board, DynamicDepth(ai, TotalMoves(board, ai.color)), TRUE)

\* C27: the score _minimax returns for a node, computed with alpha-beta
\* pruning and the transposition table, equals the plain minimax value of
\* the same game tree to the same depth with the same leaf evaluation:
\* the best score of a root loop of get_move that runs to its end (the
\* maximum of the scores _minimax returns for the root moves) is the plain
\* minimax value of the position.
C27_PlainValue == [][C27_Step]_vars

\* the colour is stalemated: its king is not attacked and it has no legal
\* move
Stalemated(b, color) == ~KingAttacked(b, color) /\ LegalMoves(b, color) = {}

\* the game is over on the board, by checkmate or stalemate of a colour
GameEnded(b) == \E color \in Colors : Mated(b, color) \/ Stalemated(b, color)

\* _minimax called at the depth evaluates the board, stores that score for
\* it and searches nothing else
StopsAt(self, b, depth, score) ==
    \A is_maximizing \in BOOLEAN :
        _minimax(self, b, depth, -Inf, Inf, is_maximizing) =
            Store(self, _get_board_hash(b), score, depth)

\* score is what _evaluate_board returns for the board
TerminalFor(self, b, score) ==
    /\ Mated(b, Opponent(self.color)) => score = 100000
    /\ Mated(b, self.color) => score = -100000
    /\ ((Stalemated(b, WHITE) \/ Stalemated(b, BLACK))
        /\ ~(Mated(b, WHITE) \/ Mated(b, BLACK))) => score = 0
    /\ StopsAt(self, b, 0, score)
    /\ GameEnded(b) => \A depth \in 1..MaxCallDepth : StopsAt(self, b, depth, score)

\* C28: the terminal evaluation is from the AI's side: _evaluate_board
\* returns +100000 whenever the AI's opponent is checkmated, -100000
\* whenever the AI's own colour is checkmated, and 0 whenever a colour is
\* stalemated and nobody is checkmated; _minimax stops recursing at such
\* positions and at depth 0.
C28_TerminalEvaluation ==
    \A color \in Colors :
        TerminalFor(ChessAI(color, 2), board, _evaluate_board(ChessAI(color, 2), board))

\* C28 witness: the side to move is checkmated; the position is worth
\* -100000 to an AI of its colour and +100000 to an AI of the other.
C28_Witness ==
    /\ Mated(board, turn)
    /\ _evaluate_board(ChessAI(turn, 1), board) = -100000
    /\ _evaluate_board(ChessAI(Opponent(turn), 1), board) = 100000

\* a second case of C28: a stalemate, worth 0 to both
C28_WitnessStalemate ==
    /\ Stalemated(board, turn)
    /\ \A color \in Colors : _evaluate_board(ChessAI(color, 2), board) = 0

\* a third case of C28: on a board where the game goes on, _minimax at
\* depth 1 searches the moves and stores more than one position
C28_WitnessSearch ==
    /\ ~GameEnded(board)
    /\ PieceCount(board) <= 4
    /\ Cardinality(DOMAIN _minimax(ChessAI(turn, 1), board, 1, -Inf, Inf, TRUE)
                              .self.transposition_table) > 1

\* the squares of the pawns of the grid
PawnSquares(b) == {sq \in Rows \X Rows : b.board[sq[1]][sq[2]].kind = "P"}

Forward(color) == IF color = WHITE THEN -1 ELSE 1

StartRank(color) == IF color = WHITE THEN 6 ELSE 1

Empty(b, sq) == sq \in Rows \X Rows /\ ~IsPiece(b.board[sq[1]][sq[2]])

\* the destinations of the pawn on sq: one square forward if empty, two if
\* the pawn is unmoved on its start rank and both squares are empty, and
\* each forward diagonal that holds a piece of the other colour or is the
\* en-passant target
PawnDestinations(b, sq, color) ==
    (IF Empty(b, <<sq[1] + Forward(color), sq[2]>>)
     THEN {<<sq[1] + Forward(color), sq[2]>>} ELSE {})
    \cup
    (IF /\ ~b.board[sq[1]][sq[2]].has_moved
        /\ sq[1] = StartRank(color)
        /\ Empty(b, <<sq[1] + Forward(color), sq[2]>>)
        /\ Empty(b, <<sq[1] + 2 * Forward(color), sq[2]>>)
     THEN {<<sq[1] + 2 * Forward(color), sq[2]>>} ELSE {})
    \cup
    {d \in {<<sq[1] + Forward(color), sq[2] - 1>>, <<sq[1] + Forward(color), sq[2] + 1>>}
           \cap (Rows \X Rows) :
        \/ b.board[d[1]][d[2]].color = Opponent(color)
        \/ b.en_passant_target = d}

PawnMovesAt(b, sq) == Pawn_get_potential_moves(b.board[sq[1]][sq[2]], b)

\* C29: Pawn.get_potential_moves returns exactly: the square one step
\* forward if empty; the square two steps forward only if the pawn is
\* unmoved on its start rank (row 6 for White, row 1 for Black) and both
\* squares are empty; and each forward-diagonal square holding an opposing
\* piece or equal to the current en-passant target.  It never returns an
\* occupied forward square or a diagonal square holding a piece of its own
\* colour.
C29_PawnMoves ==
    \A sq \in PawnSquares(board) :
        /\ Range(PawnMovesAt(board, sq)) =
               PawnDestinations(board, sq, board.board[sq[1]][sq[2]].color)
        /\ Cardinality(Range(PawnMovesAt(board, sq))) = Len(PawnMovesAt(board, sq))
        /\ \A d \in Range(PawnMovesAt(board, sq)) :
              /\ d[2] = sq[2] => ~IsPiece(board.board[d[1]][d[2]])
              /\ board.board[d[1]][d[2]].color # board.board[sq[1]][sq[2]].color
        /\ ~board.board[sq[1]][sq[2]].has_moved <=>
               sq[1] = StartRank(board.board[sq[1]][sq[2]].color)

\* C29 witness: a pawn has the en-passant target among its destinations,
\* another pawn that has moved is free to step one square but not two,
\* and a third is blocked.
C29_Witness ==
    /\ \E sq \in PawnSquares(board) : InSeq(board.en_passant_target, PawnMovesAt(board, sq))
    /\ \E sq \in PawnSquares(board) :
          /\ board.board[sq[1]][sq[2]].has_moved
          /\ Len(PawnMovesAt(board, sq)) = 1
          /\ Empty(board, <<sq[1] + 2 * Forward(board.board[sq[1]][sq[2]].color), sq[2]>>)
    /\ \E sq \in PawnSquares(board) : PawnMovesAt(board, sq) = <<>>

\* the squares of the grid that hold a piece of the colour
PiecesOf(b, color) ==
    {sq \in Rows \X Rows : IsPiece(b.board[sq[1]][sq[2]]) /\ b.board[sq[1]][sq[2]].color = color}

\* some piece of the colour has the square among the destinations of its
\* get_potential_moves
Reaches(b, color, target) ==
    \E sq \in PiecesOf(b, color) :
        InSeq(target, get_potential_moves(b.board[sq[1]][sq[2]], b))

\* C30: attack detection agrees with move generation: on every reachable
\* position and for every square s occupied by a piece of colour c,
\* is_square_under_attack(s, c) is true if and only if some piece of the
\* other colour has s among the destinations of get_potential_moves; hence
\* is_in_check(c) is true exactly when a piece of the other colour could
\* capture c's king.
C30_AttackAgrees ==
    \A color \in Colors :
        /\ \A s \in PiecesOf(board, color) :
              is_square_under_attack(board, s[1], s[2], color)
                  <=> Reaches(board, Opponent(color), s)
        /\ is_in_check(board, color)
              <=> \E s \in KingSquares(board, color) : Reaches(board, Opponent(color), s)

\* C30 witness: the king of the side to move is in check from a piece
\* that has the king's square among its destinations, while another piece
\* of that side is attacked and a third is not.
C30_Witness ==
    /\ is_in_check(board, turn)
    /\ \E s \in KingSquares(board, turn) : Reaches(board, Opponent(turn), s)
    /\ \E s \in PiecesOf(board, turn) \ KingSquares(board, turn) :
          is_square_under_attack(board, s[1], s[2], turn)
    /\ \E s \in PiecesOf(board, turn) : ~is_square_under_attack(board, s[1], s[2], turn)

\* a second case of C30: a piece stands behind another on the line of an
\* opposing rook, bishop or queen, and is neither attacked nor reached
C30_WitnessScreened ==
    \E color \in Colors : \E s \in PiecesOf(board, color) :
        /\ ~is_square_under_attack(board, s[1], s[2], color)
        /\ \E sq \in PiecesOf(board, Opponent(color)) :
              /\ board.board[sq[1]][sq[2]].kind \in {"R", "B", "Q"}
              /\ \E k \in 1..4 :
                    \/ /\ board.board[sq[1]][sq[2]].kind \in {"R", "Q"}
                       /\ RayHits_Through(board, board.board[sq[1]][sq[2]],
                                          StraightDirs[k], s[1], s[2])
                    \/ /\ board.board[sq[1]][sq[2]].kind \in {"B", "Q"}
                       /\ RayHits_Through(board, board.board[sq[1]][sq[2]],
                                          DiagonalDirs[k], s[1], s[2])

CapturedCount(b) == Len(b.captured_pieces[WHITE]) + Len(b.captured_pieces[BLACK])

\* the pieces on the grid and in the captured lists are 32; the lists hold
\* pieces of the other colour only, no empty entry and no king
Conserved(b) ==
    /\ PieceCount(b) + CapturedCount(b) = 32
    /\ \A color \in Colors : \A i \in 1..Len(b.captured_pieces[color]) :
          /\ IsPiece(b.captured_pieces[color][i])
          /\ b.captured_pieces[color][i].color = Opponent(color)
          /\ b.captured_pieces[color][i].kind # "K"

\* a move that takes a piece off the grid appends that piece, once, to the
\* list of the mover's colour; any other move leaves both lists alone
C31_Step ==
    Moved =>
        /\ board'.captured_pieces[Opponent(Mover.color)]
               = board.captured_pieces[Opponent(Mover.color)]
        /\ IF PieceCount(board') < PieceCount(board)
           THEN \E sq \in PiecesOf(board, Opponent(Mover.color)) :
                   /\ board'.board[sq[1]][sq[2]] # board.board[sq[1]][sq[2]]
                   /\ board'.captured_pieces[Mover.color]
                          = Append(board.captured_pieces[Mover.color],
                                   board.board[sq[1]][sq[2]])
           ELSE board'.captured_pieces = board.captured_pieces

\* C31: piece conservation: after any sequence of legal moves from the
\* starting arrangement, the number of pieces on the grid plus the lengths
\* of both captured lists is 32; captured_pieces[color] contains only real
\* pieces of the opposite colour (no empty entries), never a king, and a
\* capture appends the captured piece exactly once.
C31_Conservation == []Conserved(board) /\ [][C31_Step]_vars

\* C31 witness: both sides have captured, one of the captures en passant.
C31_Witness ==
    /\ board.captured_pieces[WHITE] # <<>>
    /\ board.captured_pieces[BLACK] # <<>>
    /\ \E i \in 1..Len(board.move_history) :
          /\ board.move_history[i].piece.kind = "P"
          /\ board.move_history[i].start[2] # board.move_history[i].end[2]
          /\ board.move_history[i].captured.kind = "P"
          /\ board.move_history[i].captured.row = board.move_history[i].start[1]

\* the diagonal destination d of the pawn on sq holds a piece of the other
\* colour, or is the en-passant target with a pawn of the other colour
\* beside the mover on the column of d
DiagonalJustified(b, sq, d) ==
    \/ /\ IsPiece(b.board[d[1]][d[2]])
       /\ b.board[d[1]][d[2]].color = Opponent(b.board[sq[1]][sq[2]].color)
    \/ /\ b.en_passant_target = d
       /\ b.board[sq[1]][d[2]].kind = "P"
       /\ b.board[sq[1]][d[2]].color = Opponent(b.board[sq[1]][sq[2]].color)

\* C32: on every reachable position and for every pawn of either colour
\* (not only the side to move), each diagonal destination in
\* get_valid_moves either holds an opposing piece or is an en-passant
\* capture of an opposing pawn standing beside the mover on the destination
\* column; a pawn is never offered a diagonal move onto the en-passant
\* target left by a pawn of its own colour.
C32_PawnDiagonals ==
    \A sq \in PawnSquares(board) :
        \A d \in Range(get_valid_moves(board, sq[1], sq[2])) :
            d[2] # sq[2] => DiagonalJustified(board, sq, d)

\* the part of C32 that holds: the diagonal destinations of the pawns of
\* the side to move
C32_SideToMove ==
    \A sq \in PawnSquares(board) \cap PiecesOf(board, turn) :
        \A d \in Range(get_valid_moves(board, sq[1], sq[2])) :
            d[2] # sq[2] => DiagonalJustified(board, sq, d)

\* White moves first and the colours of the moves played alternate
Alternates(b) ==
    \A i \in 1..Len(b.move_history) :
        b.move_history[i].piece.color = (IF i % 2 = 1 THEN WHITE ELSE BLACK)

C33_State ==
    /\ turn = WHITE <=> Len(board.move_history) % 2 = 0
    /\ turn \in Colors
    /\ Alternates(board)

\* the turn changes in the steps in which make_move succeeds and in no
\* other, and the move that succeeds is made by the colour whose turn it was
C33_Step ==
    /\ turn' # turn <=> (last_call' = "make_move" /\ result' = TRUE)
    /\ turn' # turn => turn' = Opponent(turn)
    /\ Moved => Mover.color = turn
    /\ Len(board'.move_history) # Len(board.move_history) => Moved

\* C33: in ChessGame the turn alternates strictly: turn changes exactly
\* when make_move succeeds and at no other time, White moves first, no
\* colour makes two moves in a row, and turn is White exactly when the
\* board's move history has even length.
C33_TurnAlternates == []C33_State /\ [][C33_Step]_vars

\* C33 witness: after moves of both colours a request was rejected; it is
\* Black's turn.
C33_Witness ==
    /\ Len(board.move_history) >= 3
    /\ turn = BLACK
    /\ last_call = "make_move"
    /\ result = FALSE

C34_Step ==
    game_over =>
        /\ game_over'
        /\ last_call' = "make_move" =>
              /\ result' = FALSE
              /\ UNCHANGED <<board, turn, winner>>

\* C34: once ChessGame.game_over is true it stays true and the game is
\* frozen: every later make_move request (local click, AI result or network
\* opponent_move) is rejected and leaves board, turn and winner unchanged.
C34_Frozen == [][C34_Step]_vars

\* the part of C34 that holds: game_over, once true, stays true, and the
\* requests made after a checkmate or a stalemate are rejected
C34_StaysOver ==
    [][game_over =>
          /\ game_over'
          /\ (last_call' = "make_move" /\ LegalMoves(board, turn) = {}) =>
                result' = FALSE /\ UNCHANGED <<board, turn, winner>>]_vars

\* the outcome make_move leaves, against the position it leaves
Outcome(b, side, mover_color, over, won) ==
    /\ (over /\ won = mover_color) <=> Mated(b, side)
    /\ (over /\ won = "None") <=>
           (Stalemated(b, side) \/ is_draw_by_insufficient_material(b))
    /\ LegalMoves(b, side) = {} => over

C35_Step == Moved => Outcome(board', turn', Mover.color, game_over', winner')

\* C35: after every successful make_move, game_over is true with winner equal
\* to the mover's color exactly when the side now to move is checkmated, and
\* game_over is true with winner None exactly when that side is stalemated or
\* the material is insufficient; whenever the side to move has no legal move
\* the game is over.
C35_Outcome == [][C35_Step]_vars

\* a move has just mated
C35_Witness ==
    /\ last_call = "make_move" /\ result = TRUE
    /\ game_over /\ winner = Opponent(turn) /\ Mated(board, turn)

\* a move has just stalemated
C35_WitnessStalemate ==
    /\ last_call = "make_move" /\ result = TRUE
    /\ game_over /\ winner = "None" /\ Stalemated(board, turn)

\* a move has just left insufficient material
C35_WitnessMaterial ==
    /\ last_call = "make_move" /\ result = TRUE
    /\ game_over /\ winner = "None" /\ ~Stalemated(board, turn)
    /\ is_draw_by_insufficient_material(board)

\* a move has left the game going
C35_WitnessGoing ==
    /\ last_call = "make_move" /\ result = TRUE
    /\ ~game_over /\ LegalMoves(board, turn) # {}

\* the slots of the games that hold client
Holds(client) ==
    {slot \in (DOMAIN games) \X Colors :
        /\ slot[2] \in DOMAIN games[slot[1]].players
        /\ games[slot[1]].players[slot[2]] = client}

\* the clients whose thread is in its receive loop
Connected == {client \in Clients : handler[client].pc = "loop"}

\* every connected client holds the slot it was told, and no other
C36_State ==
    \A client \in Connected :
        Holds(client) = {<<handler[client].game_id, handler[client].player_color>>}

\* no occupied slot is given to another client, and no game replaces a game
\* of the same id
C36_Step ==
    \A game_id \in DOMAIN games \cap DOMAIN games' :
        /\ games'[game_id].id = games[game_id].id
        /\ \A color \in DOMAIN games[game_id].players \cap DOMAIN games'[game_id].players :
              games'[game_id].players[color] = games[game_id].players[color]

\* C36: with the client handler threads of ChessServer running concurrently,
\* every connected client holds exactly one color slot in exactly one game,
\* no slot is overwritten while occupied, no two games are created with the
\* same game id, and a game never has more than one white and one black
\* connection.
C36_Matchmaking == []C36_State /\ [][C36_Step]_vars

\* a slot is overwritten while occupied, or a game replaced
C36_Overwritten == [][C36_Step]_vars

\* two connected clients were told the same slot
C36_SameSlot ==
    \A c1 \in Connected, c2 \in Connected :
        (/\ handler[c1].game_id = handler[c2].game_id
         /\ handler[c1].player_color = handler[c2].player_color) => c1 = c2

\* the step is a forwarded move that changes the local board
RemoteMoved ==
    /\ inbox # <<>>
    /\ Head(inbox).type = "opponent_move"
    /\ last_call' = "_handle_network_message"
    /\ board' # board

C37_Step ==
    RemoteMoved => /\ turn = Opponent(local_color)
                   /\ Mover.color = Opponent(local_color)

\* C37: in a network game a received opponent_move changes the local board
\* only by moving a piece of the remote player's color on the remote
\* player's turn; no message relayed by the server moves a piece of the
\* local player's color.
C37_RemoteMovesOwn == [][C37_Step]_vars

\* the part of C37 that holds: the moves of the first opponent, whose game
\* began with the local one
C37_FirstOpponent == [][peer.joined = 0 => C37_Step]_vars

\* a forwarded move has been applied to the local board
C37_Applied ==
    /\ last_call = "_handle_network_message"
    /\ result = TRUE
    /\ turn = local_color

\* the step applies a move on behalf of the AI
AIApplied == last_call' = "_handle_game" /\ board' # board

\* the step starts a thread of _ai_calculate_move
ThreadStarted == Len(threads') > Len(threads)

\* a thread whose search has not returned was started on position
Searching(s, position) ==
    \E i \in 1..Len(s) : s[i].pc = "search" /\ s[i].position = position

\* the move applied was found by a search started on this position
C38_FromThisPosition == [][AIApplied => searched = Position]_vars

\* a thread is started only on a position no thread has searched or searches
C38_OneThread ==
    [][ThreadStarted =>
          /\ ~(ai_move # <<>> /\ searched = Position)
          /\ \A i \in 1..Len(threads) : threads[i].position # Position]_vars

\* the step makes a move on the board of the game (_start_game makes a
\* new board)
Mutated == board' # board /\ started' = started

\* the board does not change while a search started on it is running
C38_BoardQuiet == [][Mutated => ~Searching(threads', Position)]_vars

C38_Step ==
    /\ AIApplied => searched = Position
    /\ ThreadStarted =>
          /\ ~(ai_move # <<>> /\ searched = Position)
          /\ \A i \in 1..Len(threads) : threads[i].position # Position
    /\ Mutated => ~Searching(threads', Position)

\* C38: in single-player mode with the AI search on a worker thread, every
\* move applied on behalf of the AI was returned by a search started on
\* exactly the position it is applied to: at most one search thread runs per
\* position, the board is not mutated while a search on it is running, and
\* no result of an earlier, cancelled or previous-game search is applied.
C38_SearchedPosition == [][C38_Step]_vars

\* the AI is to move on the running game screen
AITurn == state = "game" /\ ~paused /\ turn = BLACK /\ ~game_over

\* a Black move has been applied, or the screen has not kept running
AIMoved == turn = WHITE \/ paused \/ state # "game"

\* C39: in single-player mode, whenever it is the AI's (Black's) turn, the
\* game is not over and the game screen keeps running unpaused, a Black move
\* is eventually applied and the turn returns to White, under fair
\* scheduling of the worker thread and the frame loop.
C39_AIMoves == AITurn ~> AIMoved

\* the frame loop has applied a move of the AI
C39_Applied ==
    /\ last_call = "_handle_game" /\ result = TRUE
    /\ state = "game" /\ turn = WHITE

====
